---------------------------- MODULE Spec2Model ----------------------------
(***************************************************************************)
(* Bitmap-font text engine of source/text/Font.cpp: the codepoint resolver *)
(* (GlyphForCodepoint), the advance table computed from the atlas pixels   *)
(* (CalculateAdvances), the measuring and drawing loops (WidthRawString,   *)
(* DrawAliased) and the truncation search (TruncateText and                *)
(* TruncateEndsOrMiddle).                                                  *)
(*                                                                         *)
(* Strings are std::string values: sequences of bytes, read through the    *)
(* UTF-8 decoder.  Byte offsets are 0-based as in the code, so the byte at *)
(* offset pos of str is str[pos + 1].  Codepoints are uint32_t values; the *)
(* decoder's sentinel 0xFFFFFFFF is written -1 (its 32-bit two's           *)
(* complement reading), every other codepoint is its own number.           *)
(***************************************************************************)
EXTENDS Integers, Sequences, FiniteSets, TLC

VARIABLES
    font,    \* the Font object: glyphCount, atlas image, space, height, ...
    prefs,   \* Preferences::LetterSpacing() and Preferences::FontScale()
    res,     \* one call of Font::GlyphForCodepoint (its frame)
    loop,    \* one call of Font::WidthRawString or Font::DrawAliased(string)
    trunc,   \* one call of Font::TruncateText
    build,   \* one call of Font::Load or Font::LoadFromTtf on the Font object
    fonts,   \* FontSet's registry: map<pair<int, string>, Font>
    get,     \* one call of FontSet::Get (its frame)
    translation, \* Translation's tables: currentLanguage, currentStrings, ...
    lookup,  \* one call of Translation::Tr or of one of its helpers
    atlas,   \* one iteration of a loop that builds the atlas or its advances
    reg,     \* the last FontSet::Add or FontSet::AddTtf call
    repl     \* a call of Tr(key, replacements): its locals s, placeholder, pos

vars == <<font, prefs, res, loop, trunc, build, fonts, get, translation, lookup, atlas, reg,
          repl>>

(***************************************************************************)
(* Program constants.                                                      *)
(***************************************************************************)
GLYPHS == 98
GLYPHS_EXTENDED == 167
invalidCp == -1
npos == -1

(***************************************************************************)
(* Bounds of the model.                                                    *)
(***************************************************************************)
MaxTextLen == 3      \* codepoints of a measured or drawn string
MaxTruncLen == 5     \* codepoints of a truncated string
MaxLayoutWidth == 10 \* largest layout width (the width budget)
MaxLetterSpacing == 1
MaxMeasureLen == 4   \* codepoints of a string measured on its own
MaxTrialLen == 4     \* codepoints of a string trial strings are cut from
MaxLoads == 2        \* calls of Load and LoadFromTtf on one Font object
MaxPieces == 6       \* pieces ({{, }}, n) of a string placeholders are replaced in

Max(a, b) == IF a >= b THEN a ELSE b
Min(a, b) == IF a <= b THEN a ELSE b

(***************************************************************************)
(* UTF-8 (Utf8.h).  Utf8Encode is what produced the bytes of a text; the   *)
(* decoder reads one scalar value at a byte offset and moves the offset to *)
(* the next boundary, or sets it to npos when no scalar can be read.       *)
(***************************************************************************)
Utf8Encode(c) ==
    IF c < 128 THEN <<c>>
    ELSE IF c < 2048 THEN <<192 + (c \div 64), 128 + (c % 64)>>
    ELSE IF c < 65536
        THEN <<224 + (c \div 4096), 128 + ((c \div 64) % 64), 128 + (c % 64)>>
    ELSE <<240 + (c \div 262144), 128 + ((c \div 4096) % 64),
           128 + ((c \div 64) % 64), 128 + (c % 64)>>

IsContinuation(b) == b >= 128 /\ b < 192

CodePointBytes(b) ==
    IF b < 128 THEN 1
    ELSE IF b >= 192 /\ b < 224 THEN 2
    ELSE IF b >= 224 /\ b < 240 THEN 3
    ELSE IF b >= 240 /\ b < 248 THEN 4
    ELSE 0

DecodeCodePoint(str, pos) ==
    IF pos >= Len(str) THEN [cp |-> 0, pos |-> npos]
    ELSE LET b0 == str[pos + 1]
             n == CodePointBytes(b0)
         IN IF n = 0 \/ pos + n > Len(str)
                \/ \E i \in 1..(n - 1) : ~IsContinuation(str[pos + 1 + i])
            THEN [cp |-> invalidCp, pos |-> npos]
            ELSE [cp |-> CASE n = 1 -> b0
                           [] n = 2 -> (b0 % 32) * 64 + (str[pos + 2] % 64)
                           [] n = 3 -> (b0 % 16) * 4096 + (str[pos + 2] % 64) * 64
                                        + (str[pos + 3] % 64)
                           [] n = 4 -> (b0 % 8) * 262144 + (str[pos + 2] % 64) * 4096
                                        + (str[pos + 3] % 64) * 64 + (str[pos + 4] % 64),
                  pos |-> pos + n]

RECURSIVE SkipContinuation(_, _)
SkipContinuation(str, pos) ==
    IF pos < Len(str) /\ IsContinuation(str[pos + 1])
    THEN SkipContinuation(str, pos + 1)
    ELSE pos

NextCodePoint(str, pos) ==
    IF pos >= Len(str) THEN npos ELSE SkipContinuation(str, pos + 1)

RECURSIVE EncodeAll(_)
EncodeAll(cps) ==
    IF cps = <<>> THEN <<>> ELSE Utf8Encode(Head(cps)) \o EncodeAll(Tail(cps))

RECURSIVE DecodeAll(_, _)
DecodeAll(str, pos) ==
    IF pos = npos \/ pos >= Len(str) THEN <<>>
    ELSE LET d == DecodeCodePoint(str, pos)
         IN IF d.pos = npos THEN <<>> ELSE <<d.cp>> \o DecodeAll(str, d.pos)

(***************************************************************************)
(* The codepoint resolver.                                                 *)
(***************************************************************************)
\* The table with the ellipsis sent to the thin space, itself a key.
SubstituteUnsupportedChained(codepoint) ==
    CASE codepoint = \H00A0 -> \H0020
      [] codepoint = \H2009 -> \H0020
      [] codepoint \in {\H2010, \H2011, \H2012, \H2013} -> \H002D
      [] codepoint \in {\H2019, \H201A, \H201B} -> \H0027
      [] codepoint \in {\H201D, \H201E, \H201F} -> \H0022
      [] codepoint = \H2026 -> \H2009
      [] codepoint \in {\H2033, \H2036} -> \H0020
      [] OTHER -> 0

SubstituteUnsupported(codepoint) ==
    CASE codepoint = \H00A0 -> \H0020
      [] codepoint = \H2009 -> \H0020
      [] codepoint \in {\H2010, \H2011, \H2012, \H2013} -> \H002D
      [] codepoint \in {\H2019, \H201A, \H201B} -> \H0027
      [] codepoint \in {\H201D, \H201E, \H201F} -> \H0022
      [] codepoint \in {\H2026, \H2033, \H2036} -> \H0020
      [] OTHER -> 0

\* The resolver as it is without substitution: whatever is not in the
\* roster is blank.
GlyphForCodepointBodyNoSubstitute(glyphCount, codepoint, isAfterSpace) ==
    IF (codepoint = \H27 \/ codepoint = \H2018) /\ isAfterSpace
        THEN [ret |-> TRUE, glyph |-> 96]
    ELSE IF (codepoint = \H22 \/ codepoint = \H201C) /\ isAfterSpace
        THEN [ret |-> TRUE, glyph |-> 97]
    ELSE IF codepoint >= 32 /\ codepoint <= 126
        THEN [ret |-> TRUE, glyph |-> Max(0, Min(glyphCount - 3, codepoint - 32))]
    ELSE IF glyphCount = GLYPHS_EXTENDED /\ codepoint >= \H0410 /\ codepoint <= \H042F
        THEN [ret |-> TRUE, glyph |-> 98 + (codepoint - \H0410)]
    ELSE IF glyphCount = GLYPHS_EXTENDED /\ codepoint = \H0401
        THEN [ret |-> TRUE, glyph |-> 130]
    ELSE IF glyphCount = GLYPHS_EXTENDED /\ codepoint >= \H0430 /\ codepoint <= \H044F
        THEN [ret |-> TRUE, glyph |-> 131 + (codepoint - \H0430)]
    ELSE IF glyphCount = GLYPHS_EXTENDED /\ codepoint = \H0451
        THEN [ret |-> TRUE, glyph |-> 163]
    ELSE IF glyphCount = GLYPHS_EXTENDED /\ codepoint = \H2014
        THEN [ret |-> TRUE, glyph |-> 164]
    ELSE IF glyphCount = GLYPHS_EXTENDED /\ codepoint = \H00AB
        THEN [ret |-> TRUE, glyph |-> 165]
    ELSE IF glyphCount = GLYPHS_EXTENDED /\ codepoint = \H00BB
        THEN [ret |-> TRUE, glyph |-> 166]
    ELSE [ret |-> TRUE, glyph |-> 0]

\* The resolver with the opening-quote rule for the ASCII quotes only, as in
\* Font::Glyph.
GlyphForCodepointBodyAsciiQuotes(glyphCount, codepoint, isAfterSpace) ==
    IF codepoint = \H27 /\ isAfterSpace THEN [ret |-> TRUE, glyph |-> 96]
    ELSE IF codepoint = \H22 /\ isAfterSpace THEN [ret |-> TRUE, glyph |-> 97]
    ELSE GlyphForCodepointBodyNoSubstitute(glyphCount, codepoint, FALSE)

\* The resolver showing the spare '?' of slot 95 for what it cannot map.
GlyphForCodepointBodyPlaceholder(glyphCount, codepoint, isAfterSpace) ==
    LET r == GlyphForCodepointBodyNoSubstitute(glyphCount, codepoint, isAfterSpace)
    IN IF r.glyph # 0 \/ codepoint = \H20 THEN r
       ELSE IF codepoint # invalidCp /\ SubstituteUnsupported(codepoint) # 0
           THEN [ret |-> FALSE, sub |-> SubstituteUnsupported(codepoint)]
       ELSE [ret |-> TRUE, glyph |-> 95]

\* The resolver taking every roster for the extended one.
GlyphForCodepointBodyAlwaysExtended(glyphCount, codepoint, isAfterSpace) ==
    IF (codepoint = \H27 \/ codepoint = \H2018) /\ isAfterSpace
        THEN [ret |-> TRUE, glyph |-> 96]
    ELSE IF (codepoint = \H22 \/ codepoint = \H201C) /\ isAfterSpace
        THEN [ret |-> TRUE, glyph |-> 97]
    ELSE IF codepoint >= 32 /\ codepoint <= 126
        THEN [ret |-> TRUE, glyph |-> Max(0, Min(glyphCount - 3, codepoint - 32))]
    ELSE IF codepoint >= \H0410 /\ codepoint <= \H042F
        THEN [ret |-> TRUE, glyph |-> 98 + (codepoint - \H0410)]
    ELSE IF codepoint = \H0401 THEN [ret |-> TRUE, glyph |-> 130]
    ELSE IF codepoint >= \H0430 /\ codepoint <= \H044F
        THEN [ret |-> TRUE, glyph |-> 131 + (codepoint - \H0430)]
    ELSE IF codepoint = \H0451 THEN [ret |-> TRUE, glyph |-> 163]
    ELSE IF codepoint = \H2014 THEN [ret |-> TRUE, glyph |-> 164]
    ELSE IF codepoint = \H00AB THEN [ret |-> TRUE, glyph |-> 165]
    ELSE IF codepoint = \H00BB THEN [ret |-> TRUE, glyph |-> 166]
    ELSE IF codepoint # invalidCp /\ SubstituteUnsupported(codepoint) # 0
        THEN [ret |-> FALSE, sub |-> SubstituteUnsupported(codepoint)]
    ELSE [ret |-> TRUE, glyph |-> 0]

\* One activation of GlyphForCodepoint: either it returns a glyph index, or
\* it calls itself with the substitute codepoint (a tail call).
GlyphForCodepointBody(glyphCount, codepoint, isAfterSpace) ==
    IF (codepoint = \H27 \/ codepoint = \H2018) /\ isAfterSpace
        THEN [ret |-> TRUE, glyph |-> 96]
    ELSE IF (codepoint = \H22 \/ codepoint = \H201C) /\ isAfterSpace
        THEN [ret |-> TRUE, glyph |-> 97]
    ELSE IF codepoint >= 32 /\ codepoint <= 126
        THEN [ret |-> TRUE, glyph |-> Max(0, Min(glyphCount - 3, codepoint - 32))]
    ELSE IF glyphCount = GLYPHS_EXTENDED /\ codepoint >= \H0410 /\ codepoint <= \H042F
        THEN [ret |-> TRUE, glyph |-> 98 + (codepoint - \H0410)]
    ELSE IF glyphCount = GLYPHS_EXTENDED /\ codepoint = \H0401
        THEN [ret |-> TRUE, glyph |-> 130]
    ELSE IF glyphCount = GLYPHS_EXTENDED /\ codepoint >= \H0430 /\ codepoint <= \H044F
        THEN [ret |-> TRUE, glyph |-> 131 + (codepoint - \H0430)]
    ELSE IF glyphCount = GLYPHS_EXTENDED /\ codepoint = \H0451
        THEN [ret |-> TRUE, glyph |-> 163]
    ELSE IF glyphCount = GLYPHS_EXTENDED /\ codepoint = \H2014
        THEN [ret |-> TRUE, glyph |-> 164]
    ELSE IF glyphCount = GLYPHS_EXTENDED /\ codepoint = \H00AB
        THEN [ret |-> TRUE, glyph |-> 165]
    ELSE IF glyphCount = GLYPHS_EXTENDED /\ codepoint = \H00BB
        THEN [ret |-> TRUE, glyph |-> 166]
    ELSE IF codepoint # invalidCp /\ SubstituteUnsupported(codepoint) # 0
        THEN [ret |-> FALSE, sub |-> SubstituteUnsupported(codepoint)]
    ELSE [ret |-> TRUE, glyph |-> 0]

RECURSIVE GlyphForCodepoint(_, _, _)
GlyphForCodepoint(glyphCount, codepoint, isAfterSpace) ==
    LET r == GlyphForCodepointBody(glyphCount, codepoint, isAfterSpace)
    IN IF r.ret THEN r.glyph ELSE GlyphForCodepoint(glyphCount, r.sub, isAfterSpace)


(***************************************************************************)
(* Atlas images.  An ImageBuffer is a record [kind, width, height, ...];   *)
(* Alpha(image, index) is the alpha byte (the top byte, the one the mask   *)
(* 0xFF000000 selects) of the pixel at linear index y * width + x.         *)
(*                                                                         *)
(* The sheet image is a pre-rendered PNG of GLYPHS cells, 8 pixels wide    *)
(* and 2 rows high.  SheetInk gives, per glyph cell and row, the columns   *)
(* that are opaque (alpha 255); SheetFaint those that are antialiased      *)
(* below the threshold (alpha 128).                                        *)
(***************************************************************************)
SheetImage == [kind |-> "sheet", width |-> GLYPHS * 8, height |-> 2]

SheetInk(g, y) ==
    CASE g = 0 -> {}
      [] g = 52 -> IF y = 0 THEN 1..6 ELSE {5}          \* T
      [] g = 73 -> IF y = 0 THEN {} ELSE {3}            \* i
      [] g = 14 -> IF y = 0 THEN {1} ELSE 4..6          \* .
      [] g \in {7, 96} -> IF y = 0 THEN 1..2 ELSE {}    \* ' and open quote
      [] g \in {2, 97} -> IF y = 0 THEN 1..4 ELSE {}    \* " and open quote
      [] g = 13 -> IF y = 0 THEN {} ELSE 1..4           \* -
      [] g = 33 -> IF y = 0 THEN {2, 3} ELSE 0..5       \* A
      [] g = 54 -> IF y = 0 THEN 0..5 ELSE {2, 3}       \* V
      [] OTHER -> IF y \in {0, 1} THEN 0..5 ELSE {}

SheetFaint(g, y) ==
    IF g = 52 /\ y = 1 THEN {4, 6} ELSE IF g = 0 THEN {} ELSE {7}

(***************************************************************************)
(* The TrueType source, as stb_truetype presents it at the scale of the    *)
(* requested pixel height: per codepoint a bitmap box of w by h pixels     *)
(* (stbtt_GetCodepointBitmapBox) and its coverage                          *)
(* (stbtt_MakeCodepointBitmap), antialiased on its right edge.             *)
(***************************************************************************)
TtfBox(codepoint, pixelHeight) ==
    CASE codepoint = \H20 -> [w |-> 0, h |-> 0]
      [] codepoint \in {\H27, \H22, \H2018, \H201C} -> [w |-> 1, h |-> 1]
      [] codepoint \in {\H2E, \H2C} -> [w |-> 1, h |-> 1]
      [] codepoint \in {\H2D, \H2014} -> [w |-> pixelHeight, h |-> 1]
      [] codepoint \in {\H57, \H4D, \H0428} -> [w |-> 2 * pixelHeight + 1, h |-> pixelHeight]
      [] codepoint = \H7C -> [w |-> 1, h |-> 2 * pixelHeight + 1]
      [] OTHER -> [w |-> pixelHeight, h |-> pixelHeight]

TtfCoverage(codepoint, w, x, y) == IF w > 1 /\ x = w - 1 THEN 128 ELSE 255

VerticalPlacement(codepoint) ==
    IF codepoint \in {\H002B, \H003D, \H002A, \H002F, \H005C, \H007C, \H003C,
                      \H003E, \H007E, \H002D, \H2010, \H2011, \H2012, \H2013,
                      \H2014, \H00AB, \H00BB, \H2039, \H203A, \H00B7, \H2022,
                      \H2219}
        THEN "MIDDLE"
    ELSE IF codepoint \in {\H0027, \H0022, \H0060, \H005E, \H00B4, \H00A8,
                           \H00AF, \H02BC, \H02C7, \H02CA, \H02CB, \H02DC,
                           \H2018, \H2019, \H201A, \H201B, \H201C, \H201D,
                           \H201E, \H201F, \H2032, \H2033}
        THEN "TOP"
    ELSE "BOTTOM"

\* The roster without the spare '?' pushed after the ASCII range.
RosterCodepointNoSpare(i) ==
    IF i <= 94 THEN 32 + i
    ELSE IF i = 95 THEN \H2018
    ELSE IF i = 96 THEN \H201C
    ELSE IF i <= 128 THEN \H0410 + (i - 97)
    ELSE IF i = 129 THEN \H0401
    ELSE IF i <= 161 THEN \H0430 + (i - 130)
    ELSE IF i = 162 THEN \H0451
    ELSE IF i = 163 THEN \H2014
    ELSE IF i = 164 THEN \H00AB
    ELSE \H00BB

\* The roster LoadFromTtf rasterizes, by atlas slot (vector index, 0-based).
RosterCodepoint(i) ==
    IF i <= 94 THEN 32 + i
    ELSE IF i = 95 THEN 63
    ELSE IF i = 96 THEN \H2018
    ELSE IF i = 97 THEN \H201C
    ELSE IF i <= 129 THEN \H0410 + (i - 98)
    ELSE IF i = 130 THEN \H0401
    ELSE IF i <= 162 THEN \H0430 + (i - 131)
    ELSE IF i = 163 THEN \H0451
    ELSE IF i = 164 THEN \H2014
    ELSE IF i = 165 THEN \H00AB
    ELSE \H00BB

\* round(twice / 2.) of <cmath>: halves round away from zero.
RoundHalf(twice) ==
    IF twice % 2 = 0 THEN twice \div 2
    ELSE IF twice > 0 THEN (twice + 1) \div 2
    ELSE (twice - 1) \div 2

PlaceGlyphUnclipped(i, cellW, cellH, box, placement) ==
    [skip |-> box.w <= 0 \/ box.h <= 0,
     w |-> box.w, h |-> box.h,
     dx |-> i * cellW + ((cellW - box.w) \div 2),
     dy |-> Max(0, Min(cellH - box.h,
                       (CASE placement = "BOTTOM" -> cellH - box.h
                          [] placement = "MIDDLE" ->
                                RoundHalf(2 * (cellH - (cellH \div 2)) - box.h)
                          [] OTHER -> 0) - (cellH \div 2)))]

PlaceGlyphUnlifted(i, cellW, cellH, box, placement) ==
    [skip |-> box.w <= 0 \/ box.h <= 0,
     w |-> Min(box.w, cellW), h |-> Min(box.h, cellH),
     dx |-> i * cellW + ((cellW - Min(box.w, cellW)) \div 2),
     dy |-> Max(0, Min(cellH - Min(box.h, cellH),
                       CASE placement = "BOTTOM" -> cellH - Min(box.h, cellH)
                         [] placement = "MIDDLE" ->
                               RoundHalf(2 * (cellH - (cellH \div 2)) - Min(box.h, cellH))
                         [] OTHER -> 0))]

\* Where LoadFromTtf puts a glyph of bitmap box `box` and vertical
\* placement `placement` in cell i: the clipped size and the top-left
\* corner (dx, dy) of the copy, or skip when the box is empty.
PlaceGlyph(i, cellW, cellH, box, placement) ==
    LET w == IF box.w > cellW THEN cellW ELSE box.w
        h == IF box.h > cellH THEN cellH ELSE box.h
        bottomAnchor == cellH
        middleAnchor == bottomAnchor - (cellH \div 2)
        topAnchor == bottomAnchor - cellH
        placed == CASE placement = "BOTTOM" -> bottomAnchor - h
                    [] placement = "MIDDLE" -> RoundHalf(2 * middleAnchor - h)
                    [] OTHER -> topAnchor
        lifted == placed - (cellH \div 2)
    IN [skip |-> box.w <= 0 \/ box.h <= 0,
        w |-> w, h |-> h,
        dx |-> i * cellW + ((cellW - w) \div 2),
        dy |-> Max(0, Min(cellH - h, lifted))]

GlyphPlacement(i, pixelHeight) ==
    PlaceGlyph(i, pixelHeight * 2, pixelHeight * 2,
               TtfBox(RosterCodepoint(i), pixelHeight),
               VerticalPlacement(RosterCodepoint(i)))

TtfImage(pixelHeight) ==
    [kind |-> "ttf", width |-> GLYPHS_EXTENDED * (pixelHeight * 2),
     height |-> pixelHeight * 2, pixelHeight |-> pixelHeight]

\* The alpha byte the copy loop of LoadFromTtf leaves at (x, y): the
\* buffer is zero-filled and each slot's glyph is copied into its own cell.
CopiedAlpha(g, codepoint, x, y) ==
    IF ~g.skip /\ x >= g.dx /\ x < g.dx + g.w /\ y >= g.dy /\ y < g.dy + g.h
    THEN TtfCoverage(codepoint, g.w, x - g.dx, y - g.dy)
    ELSE 0

TtfAlpha(pixelHeight, x, y) ==
    CopiedAlpha(GlyphPlacement(x \div (pixelHeight * 2), pixelHeight),
                RosterCodepoint(x \div (pixelHeight * 2)), x, y)

Alpha(image, index) ==
    LET x == index % image.width
        y == index \div image.width
    IN IF image.kind = "ttf" THEN TtfAlpha(image.pixelHeight, x, y)
       ELSE LET cell == image.width \div GLYPHS
                g == x \div cell
            IN IF (x % cell) \in SheetInk(g, y) THEN 255
               ELSE IF (x % cell) \in SheetFaint(g, y) THEN 128
               ELSE 0

(***************************************************************************)
(* The advance table.  CalculateAdvances fills a vector of glyphCount^2    *)
(* entries from the pixels of the image; the model keeps in font.advance   *)
(* the image and the glyph count the vector was computed from, and         *)
(* AdvanceEntry computes the entry [previous][next] as the code does.      *)
(***************************************************************************)
half == 192

\* while(pit != pend && (*--pit & mask) < half) {}
RECURSIVE ScanLast(_, _, _)
ScanLast(image, pend, pit) ==
    IF pit # pend
    THEN IF Alpha(image, pit - 1) < half THEN ScanLast(image, pend, pit - 1)
         ELSE pit - 1
    ELSE pit

\* while(nit != nend && (*nit++ & mask) < half) {}
RECURSIVE ScanFirst(_, _, _)
ScanFirst(image, nend, nit) ==
    IF nit # nend
    THEN IF Alpha(image, nit) < half THEN ScanFirst(image, nend, nit + 1)
         ELSE nit + 1
    ELSE nit

RowDistancesTouching(width, next, pend, pit, nend, nit) ==
    [distance0 |-> (pit - pend) + 1,
     distance |-> IF next # 0
                  THEN (pit - pend) + 1 - (nit - (nend - width))
                  ELSE (pit - pend) + 1]

\* One row of the loop over y: the distances the two scans give.
RowDistances(width, next, pend, pit, nend, nit) ==
    [distance0 |-> (pit - pend) + 1,
     distance |-> IF next # 0
                  THEN (pit - pend) + 1 + 1 - (nit - (nend - width))
                  ELSE (pit - pend) + 1]

\* The loop over the rows y, from row y on, with the running maxD and
\* glyphWidth.
RECURSIVE AdvanceRows(_, _, _, _, _, _, _)
AdvanceRows(image, width, previous, next, y, maxD, glyphWidth) ==
    IF y >= image.height THEN Max(maxD, glyphWidth - 4) \div 2
    ELSE LET begin == y * image.width
             pend == begin + previous * width
             nend == begin + next * width + width
             d == RowDistances(width, next,
                               pend, ScanLast(image, pend, pend + width),
                               nend, ScanFirst(image, nend, begin + next * width))
         IN AdvanceRows(image, width, previous, next, y + 1,
                        Max(maxD, d.distance), Max(d.distance0, glyphWidth))

AdvanceEntryUnfloored(image, glyphCountParam, previous, next) ==
    IF previous = 0 THEN 0
    ELSE AdvanceRows(image, image.width \div glyphCountParam, previous, next, 0, -8, 0)

AdvanceEntry(image, glyphCountParam, previous, next) ==
    IF previous = 0 THEN 0
    ELSE AdvanceRows(image, image.width \div glyphCountParam, previous, next, 0, 0, 0)

\* The entries the texts of the model read most, computed once (tables of
\* AdvanceEntry values, nothing else).
FrequentGlyphs == {0, 2, 7, 13, 14, 33, 52, 54, 73, 78, 96, 97, 98, 164}
SheetTable == [image |-> SheetImage, count |-> GLYPHS]
TtfTable == [image |-> TtfImage(2), count |-> GLYPHS_EXTENDED]
SheetMemo ==
    [p \in FrequentGlyphs |-> [n \in FrequentGlyphs |->
        AdvanceEntry(SheetTable.image, SheetTable.count, p, n)]]
TtfMemo ==
    [p \in FrequentGlyphs |-> [n \in FrequentGlyphs |->
        AdvanceEntry(TtfTable.image, TtfTable.count, p, n)]]

\* advance[index] of a font.
Advance(f, index) ==
    LET previous == index \div f.advance.count
        next == index % f.advance.count
    IN IF previous \in FrequentGlyphs /\ next \in FrequentGlyphs /\ f.advance = SheetTable
           THEN SheetMemo[previous][next]
       ELSE IF previous \in FrequentGlyphs /\ next \in FrequentGlyphs /\ f.advance = TtfTable
           THEN TtfMemo[previous][next]
       ELSE AdvanceEntry(f.advance.image, f.advance.count, previous, next)

CalculateAdvancesUnhalved(image, glyphCountParam) ==
    [advance |-> [image |-> image, count |-> glyphCountParam],
     height |-> image.height \div 2,
     space |-> ((image.width \div glyphCountParam) + 3) \div 6 + 1]

\* The fields CalculateAdvances sets.
CalculateAdvances(image, glyphCountParam) ==
    [advance |-> [image |-> image, count |-> glyphCountParam],
     height |-> image.height \div 2,
     space |-> (((image.width \div glyphCountParam) \div 2) + 3) \div 6 + 1]

(***************************************************************************)
(* Measuring: Font::WidthRawString.  cp and glyph are the locals of the    *)
(* last iteration.                                                         *)
(***************************************************************************)
\* static_cast<int>(width * Preferences::FontScale() / 100.)
Scaled(width, fontScale) ==
    IF width * fontScale >= 0 THEN (width * fontScale) \div 100
    ELSE -((-(width * fontScale)) \div 100)

\* WidthLoopBody reading the advance table with its two indices exchanged.
WidthLoopBodySwapped(f, kern, str, s) ==
    LET d == DecodeCodePoint(str, s.pos)
    IN IF d.pos = npos THEN [s EXCEPT !.pos = npos]
       ELSE IF d.cp = \H5F THEN [s EXCEPT !.pos = d.pos, !.cp = d.cp]
       ELSE LET glyph == GlyphForCodepoint(f.glyphCount, d.cp, s.isAfterSpace)
                isAfterSpace == IF d.cp # \H22 /\ d.cp # \H27 THEN glyph = 0
                                ELSE s.isAfterSpace
            IN IF glyph = 0
               THEN [s EXCEPT !.pos = d.pos, !.cp = d.cp, !.glyph = glyph,
                              !.isAfterSpace = isAfterSpace,
                              !.width = s.width + f.space]
               ELSE [s EXCEPT !.pos = d.pos, !.cp = d.cp, !.glyph = glyph,
                              !.isAfterSpace = isAfterSpace,
                              !.width = s.width
                                  + Advance(f, glyph * f.glyphCount + s.previous) + kern,
                              !.previous = glyph]

\* WidthLoopBody measuring the underline marker like any other character.
WidthLoopBodyUnderlineMeasured(f, kern, str, s) ==
    LET d == DecodeCodePoint(str, s.pos)
    IN IF d.pos = npos THEN [s EXCEPT !.pos = npos]
       ELSE LET glyph == GlyphForCodepoint(f.glyphCount, d.cp, s.isAfterSpace)
                isAfterSpace == IF d.cp # \H22 /\ d.cp # \H27 THEN glyph = 0
                                ELSE s.isAfterSpace
            IN IF glyph = 0
               THEN [s EXCEPT !.pos = d.pos, !.cp = d.cp, !.glyph = glyph,
                              !.isAfterSpace = isAfterSpace,
                              !.width = s.width + f.space]
               ELSE [s EXCEPT !.pos = d.pos, !.cp = d.cp, !.glyph = glyph,
                              !.isAfterSpace = isAfterSpace,
                              !.width = s.width
                                  + Advance(f, s.previous * f.glyphCount + glyph) + kern,
                              !.previous = glyph]

\* WidthLoopBody without the update of isAfterSpace.
WidthLoopBodyKeepFlag(f, kern, str, s) ==
    LET d == DecodeCodePoint(str, s.pos)
    IN IF d.pos = npos THEN [s EXCEPT !.pos = npos]
       ELSE IF d.cp = \H5F THEN [s EXCEPT !.pos = d.pos, !.cp = d.cp]
       ELSE LET glyph == GlyphForCodepoint(f.glyphCount, d.cp, s.isAfterSpace)
            IN IF glyph = 0
               THEN [s EXCEPT !.pos = d.pos, !.cp = d.cp, !.glyph = glyph,
                              !.width = s.width + f.space]
               ELSE [s EXCEPT !.pos = d.pos, !.cp = d.cp, !.glyph = glyph,
                              !.width = s.width
                                  + Advance(f, s.previous * f.glyphCount + glyph) + kern,
                              !.previous = glyph]

\* One iteration of the loop of WidthRawString on the locals s.
WidthLoopBody(f, kern, str, s) ==
    LET d == DecodeCodePoint(str, s.pos)
    IN IF d.pos = npos THEN [s EXCEPT !.pos = npos]
       ELSE IF d.cp = \H5F THEN [s EXCEPT !.pos = d.pos, !.cp = d.cp]
       ELSE LET glyph == GlyphForCodepoint(f.glyphCount, d.cp, s.isAfterSpace)
                isAfterSpace == IF d.cp # \H22 /\ d.cp # \H27 THEN glyph = 0
                                ELSE s.isAfterSpace
            IN IF glyph = 0
               THEN [s EXCEPT !.pos = d.pos, !.cp = d.cp, !.glyph = glyph,
                              !.isAfterSpace = isAfterSpace,
                              !.width = s.width + f.space]
               ELSE [s EXCEPT !.pos = d.pos, !.cp = d.cp, !.glyph = glyph,
                              !.isAfterSpace = isAfterSpace,
                              !.width = s.width
                                  + Advance(f, s.previous * f.glyphCount + glyph) + kern,
                              !.previous = glyph]

\* The locals of WidthRawString when the loop is entered.
WidthLocals == [pos |-> 0, width |-> 0, previous |-> 0, isAfterSpace |-> TRUE,
                cp |-> 0, glyph |-> 0]

\* The statements after the loop: the trailing lookup and the scaling.
WidthReturn(f, fontScale, s, after) ==
    LET afterGlyph == IF after >= 32 /\ after <= 126 THEN after - 32 ELSE 0
    IN Scaled(s.width + Advance(f, s.previous * f.glyphCount
                                   + Max(0, Min(f.glyphCount - 1, afterGlyph))),
              fontScale)

RECURSIVE WidthLoop(_, _, _, _)
WidthLoop(f, kern, str, s) ==
    IF s.pos # npos /\ s.pos < Len(str) THEN WidthLoop(f, kern, str, WidthLoopBody(f, kern, str, s))
    ELSE s

WidthRawString(f, p, str, after) ==
    WidthReturn(f, p.fontScale, WidthLoop(f, p.letterSpacing, str, WidthLocals), after)

Ellipsis == <<46, 46, 46>>

(***************************************************************************)
(* Font::Load and Font::LoadFromTtf on a readable source: the fields of    *)
(* the Font object after the load.  widthEllipses is filled in last, from  *)
(* the fields already set.                                                 *)
(***************************************************************************)
\* The preferences in force while a font is loaded.
LoadPrefs == [letterSpacing |-> 0, fontScale |-> 100]

Load(image) ==
    LET f == [texture |-> image, glyphCount |-> GLYPHS]
             @@ CalculateAdvances(image, GLYPHS)
    IN f @@ [widthEllipses |-> WidthRawString(f, LoadPrefs, Ellipsis, 32)]

LoadFromTtf(pixelHeight) ==
    LET image == TtfImage(pixelHeight)
        f == [texture |-> image, glyphCount |-> GLYPHS_EXTENDED]
             @@ CalculateAdvances(image, GLYPHS_EXTENDED)
    IN f @@ [widthEllipses |-> WidthRawString(f, LoadPrefs, Ellipsis, 32)]

(***************************************************************************)
(* Codepoint-wise substrings (the helpers of the anonymous namespace).     *)
(***************************************************************************)
\* str.substr(from, count) and str.substr(from)
SubStr(str, from, count) == SubSeq(str, from + 1, Min(Len(str), from + count))
SubStrFrom(str, from) == SubSeq(str, from + 1, Len(str))

RECURSIVE ByteOffsetLoop(_, _, _, _)
ByteOffsetLoop(str, n, i, pos) ==
    IF i < n /\ pos # npos /\ pos < Len(str)
    THEN ByteOffsetLoop(str, n, i + 1, NextCodePoint(str, pos))
    ELSE pos

ByteOffsetAfterCodePoints(str, n) ==
    LET pos == ByteOffsetLoop(str, n, 0, 0)
    IN IF pos = npos \/ pos > Len(str) THEN Len(str) ELSE pos

RECURSIVE CountLoop(_, _, _)
CountLoop(str, count, pos) ==
    IF pos # npos /\ pos < Len(str)
    THEN CountLoop(str, count + 1, NextCodePoint(str, pos))
    ELSE count

CountCodePoints(str) == CountLoop(str, 0, 0)

SubstringFirstCodePoints(str, n) == SubStr(str, 0, ByteOffsetAfterCodePoints(str, n))

SubstringLastBytes(str, n) ==
    IF Len(str) <= n THEN str ELSE SubStrFrom(str, Len(str) - n)

SubstringLastCodePoints(str, n) ==
    LET total == CountCodePoints(str)
    IN IF total <= n THEN str
       ELSE SubStrFrom(str, ByteOffsetAfterCodePoints(str, total - n))

(***************************************************************************)
(* Truncation.  getResultString is the lambda TruncateBack, TruncateFront  *)
(* or TruncateMiddle passes to TruncateEndsOrMiddle.                       *)
(***************************************************************************)
TruncateBack(str, charCount) == SubstringFirstCodePoints(str, charCount) \o Ellipsis

TruncateFront(str, charCount) == Ellipsis \o SubstringLastCodePoints(str, charCount)

TruncateMiddle(str, charCount) ==
    SubstringFirstCodePoints(str, (charCount + 1) \div 2) \o Ellipsis
        \o SubstringLastCodePoints(str, charCount \div 2)

getResultString(truncate, str, charCount) ==
    CASE truncate = "FRONT" -> TruncateFront(str, charCount)
      [] truncate = "MIDDLE" -> TruncateMiddle(str, charCount)
      [] OTHER -> TruncateBack(str, charCount)

\* The frame of a TruncateText call that has not searched yet.  iterations
\* counts the iterations of the search loop made so far.
TruncFrame(str, layout) ==
    [pc |-> "call", str |-> str, layout |-> layout, width |-> -1, result |-> <<>>,
     low |-> 0, high |-> 0, workingChars |-> 0, workingWidth |-> 0,
     iterations |-> 0]

\* TruncateText up to the search loop of TruncateEndsOrMiddle.
TruncateTextEntry(f, p, t) ==
    IF t.layout.width < 0 \/ (t.layout.align = "LEFT" /\ t.layout.truncate = "NONE")
        THEN [t EXCEPT !.pc = "done", !.width = -1, !.result = t.str]
    ELSE IF t.layout.truncate = "NONE"
        THEN [t EXCEPT !.pc = "done", !.width = WidthRawString(f, p, t.str, 32),
                       !.result = t.str]
    ELSE LET firstWidth == WidthRawString(f, p, t.str, 32) IN
    IF firstWidth <= t.layout.width
        THEN [t EXCEPT !.pc = "done", !.width = firstWidth, !.result = t.str]
    ELSE [t EXCEPT !.pc = "search", !.width = t.layout.width,
                   !.workingChars = 0, !.workingWidth = 0,
                   !.low = 0, !.high = CountCodePoints(t.str)]

\* SearchBody with the comparison made strict (a width equal to the budget
\* no longer fits).
SearchBodyStrict(f, p, t) ==
    LET nextChars == (t.low + t.high) \div 2
        nextWidth == WidthRawString(f, p,
                         getResultString(t.layout.truncate, t.str, nextChars), 32)
    IN IF nextWidth < t.width
       THEN [t EXCEPT !.iterations = @ + 1,
                      !.workingChars = IF nextChars > t.workingChars
                                       THEN nextChars ELSE t.workingChars,
                      !.workingWidth = IF nextChars > t.workingChars
                                       THEN nextWidth ELSE t.workingWidth,
                      !.low = nextChars + (IF nextChars = t.low THEN 1 ELSE 0)]
       ELSE [t EXCEPT !.iterations = @ + 1, !.high = nextChars - 1]

\* SearchBody recording the trial as the working one whether it fits or not.
SearchBodyKeepUnfitted(f, p, t) ==
    LET nextChars == (t.low + t.high) \div 2
        nextWidth == WidthRawString(f, p,
                         getResultString(t.layout.truncate, t.str, nextChars), 32)
        kept == [t EXCEPT !.iterations = @ + 1,
                          !.workingChars = IF nextChars > t.workingChars
                                           THEN nextChars ELSE t.workingChars,
                          !.workingWidth = IF nextChars > t.workingChars
                                           THEN nextWidth ELSE t.workingWidth]
    IN IF nextWidth <= t.width
       THEN [kept EXCEPT !.low = nextChars + (IF nextChars = t.low THEN 1 ELSE 0)]
       ELSE [kept EXCEPT !.high = nextChars - 1]

\* SearchBody with low left at nextChars when the trial fits.
SearchBodyStuck(f, p, t) ==
    LET nextChars == (t.low + t.high) \div 2
        nextWidth == WidthRawString(f, p,
                         getResultString(t.layout.truncate, t.str, nextChars), 32)
    IN IF nextWidth <= t.width
       THEN [t EXCEPT !.iterations = @ + 1,
                      !.workingChars = IF nextChars > t.workingChars
                                       THEN nextChars ELSE t.workingChars,
                      !.workingWidth = IF nextChars > t.workingChars
                                       THEN nextWidth ELSE t.workingWidth,
                      !.low = nextChars]
       ELSE [t EXCEPT !.iterations = @ + 1, !.high = nextChars - 1]

\* One iteration of while(low <= high).
SearchBody(f, p, t) ==
    LET nextChars == (t.low + t.high) \div 2
        nextWidth == WidthRawString(f, p,
                         getResultString(t.layout.truncate, t.str, nextChars), 32)
    IN IF nextWidth <= t.width
       THEN [t EXCEPT !.iterations = @ + 1,
                      !.workingChars = IF nextChars > t.workingChars
                                       THEN nextChars ELSE t.workingChars,
                      !.workingWidth = IF nextChars > t.workingChars
                                       THEN nextWidth ELSE t.workingWidth,
                      !.low = nextChars + (IF nextChars = t.low THEN 1 ELSE 0)]
       ELSE [t EXCEPT !.iterations = @ + 1, !.high = nextChars - 1]

\* The statements after the loop.
SearchExit(t) ==
    [t EXCEPT !.pc = "done", !.width = t.workingWidth,
              !.result = getResultString(t.layout.truncate, t.str, t.workingChars)]

TruncateText ==
    /\ trunc.pc = "call"
    /\ trunc' = TruncateTextEntry(font, prefs, trunc)
    /\ UNCHANGED <<font, prefs, res, loop, build, fonts, get, translation, lookup, atlas, reg, repl>>

SearchStep ==
    /\ trunc.pc = "search"
    /\ trunc.low <= trunc.high
    /\ trunc' = SearchBody(font, prefs, trunc)
    /\ UNCHANGED <<font, prefs, res, loop, build, fonts, get, translation, lookup, atlas, reg, repl>>

SearchReturn ==
    /\ trunc.pc = "search"
    /\ trunc.low > trunc.high
    /\ trunc' = SearchExit(trunc)
    /\ UNCHANGED <<font, prefs, res, loop, build, fonts, get, translation, lookup, atlas, reg, repl>>

(***************************************************************************)
(* Drawing: Font::DrawAliased(const string &, ...).  textPos is textPos[0] *)
(* in hundredths of a pixel (the advances are integers and scaleFactor is  *)
(* FontScale / 100); drawn lists the glyph indices submitted for drawing.  *)
(***************************************************************************)
DrawLoopBody(f, p, str, s) ==
    LET d == DecodeCodePoint(str, s.pos)
        underscoreGlyph == Max(0, Min(f.glyphCount - 1, \H5F - 32))
    IN IF d.pos = npos THEN [s EXCEPT !.pos = npos]
       ELSE IF d.cp = \H5F
           THEN [s EXCEPT !.pos = d.pos, !.cp = d.cp, !.underlineChar = s.showUnderlines]
       ELSE LET glyph == GlyphForCodepoint(f.glyphCount, d.cp, s.isAfterSpace)
                isAfterSpace == IF d.cp # \H22 /\ d.cp # \H27 THEN glyph = 0
                                ELSE s.isAfterSpace
            IN IF glyph = 0
               THEN [s EXCEPT !.pos = d.pos, !.cp = d.cp, !.glyph = glyph,
                              !.isAfterSpace = isAfterSpace,
                              !.textPos = s.textPos + f.space * p.fontScale]
               ELSE [s EXCEPT !.pos = d.pos, !.cp = d.cp, !.glyph = glyph,
                              !.isAfterSpace = isAfterSpace,
                              !.textPos = s.textPos
                                  + (Advance(f, s.previous * f.glyphCount + glyph)
                                     + p.letterSpacing) * p.fontScale,
                              !.drawn = IF s.underlineChar
                                        THEN s.drawn \o <<glyph, underscoreGlyph>>
                                        ELSE Append(s.drawn, glyph),
                              !.underlineChar = FALSE,
                              !.previous = glyph]

\* The frame of a WidthRawString or DrawAliased call entering its loop.
LoopFrame(op, str, after, showUnderlines) ==
    WidthLocals @@
    [pc |-> "loop", op |-> op, str |-> str, after |-> after,
     showUnderlines |-> showUnderlines, textPos |-> -100,
     underlineChar |-> FALSE, drawn |-> <<>>, result |-> 0]

\* The frame of a GlyphForCodepoint call; original is the codepoint of the
\* outermost activation, depth the number of nested activations.
ResolveFrame(codepoint, isAfterSpace) ==
    [pc |-> "call", original |-> codepoint, codepoint |-> codepoint,
     isAfterSpace |-> isAfterSpace, depth |-> 0, glyph |-> 0]

IdleRes == [ResolveFrame(0, FALSE) EXCEPT !.pc = "idle"]
IdleLoop == [LoopFrame("none", <<>>, 32, FALSE) EXCEPT !.pc = "idle"]
IdleTrunc ==
    [TruncFrame(<<>>, [width |-> -1, align |-> "LEFT", truncate |-> "NONE"])
        EXCEPT !.pc = "idle"]

InLoop == loop.pc = "loop" /\ loop.pos # npos /\ loop.pos < Len(loop.str)

GlyphForCodepointCall ==
    /\ res.pc = "call"
    /\ LET r == GlyphForCodepointBody(font.glyphCount, res.codepoint, res.isAfterSpace)
       IN res' = IF r.ret THEN [res EXCEPT !.pc = "done", !.glyph = r.glyph]
                 ELSE [res EXCEPT !.codepoint = r.sub, !.depth = @ + 1]
    /\ UNCHANGED <<font, prefs, loop, trunc, build, fonts, get, translation, lookup, atlas, reg, repl>>

\* advance[previous * glyphCount + glyph] lies in the vector when the vector
\* has glyphCount * glyphCount entries.  While it has another size (a load
\* is under way on the object) the read may fall outside it, and the value
\* read is then any value.
WildReads == {-1, 0, 1}
ReadOutcomes(f, s, field) ==
    IF f.glyphCount = f.advance.count THEN {s}
    ELSE {s} \cup {[s EXCEPT ![field] = w] : w \in WildReads}

WidthRawStringStep ==
    /\ loop.op = "WidthRawString" /\ InLoop
    /\ loop' \in ReadOutcomes(font,
                    WidthLoopBody(font, prefs.letterSpacing, loop.str, loop), "width")
    /\ UNCHANGED <<font, prefs, res, trunc, build, fonts, get, translation, lookup, atlas, reg, repl>>

WidthRawStringReturn ==
    /\ loop.op = "WidthRawString" /\ loop.pc = "loop" /\ ~InLoop
    /\ loop' \in ReadOutcomes(font,
                    [loop EXCEPT !.pc = "done",
                                 !.result = WidthReturn(font, prefs.fontScale, loop, loop.after)],
                    "result")
    /\ UNCHANGED <<font, prefs, res, trunc, build, fonts, get, translation, lookup, atlas, reg, repl>>

DrawAliasedStep ==
    /\ loop.op = "DrawAliased" /\ InLoop
    /\ loop' = DrawLoopBody(font, prefs, loop.str, loop)
    /\ UNCHANGED <<font, prefs, res, trunc, build, fonts, get, translation, lookup, atlas, reg, repl>>

DrawAliasedReturn ==
    /\ loop.op = "DrawAliased" /\ loop.pc = "loop" /\ ~InLoop
    /\ loop' = [loop EXCEPT !.pc = "done"]
    /\ UNCHANGED <<font, prefs, res, trunc, build, fonts, get, translation, lookup, atlas, reg, repl>>

(***************************************************************************)
(* Font::Load and Font::LoadFromTtf statement by statement, on the Font    *)
(* object `font`.  The frame keeps the source (readable or not, and the    *)
(* image it yields), the glyph count of its roster and, in `before`, the   *)
(* object as it was when the call was entered.                             *)
(***************************************************************************)
\* texture == 0: no texture.
NoTexture == [kind |-> "none", width |-> 0, height |-> 0]

\* A Font object no load has touched.
DefaultFont ==
    [texture |-> NoTexture, glyphCount |-> GLYPHS,
     advance |-> [image |-> NoTexture, count |-> 0],
     height |-> 0, space |-> 0, widthEllipses |-> 0]

\* advance.resize(n * n); fill(advance.begin(), advance.end(), 0)
ZeroTable(glyphCountParam) == [image |-> NoTexture, count |-> glyphCountParam]

BuildFrame(op, readable, image, count, before, calls) ==
    [pc |-> IF op = "LoadFromTtf" THEN "enter" ELSE "read",
     op |-> op, readable |-> readable, image |-> image, count |-> count,
     before |-> before, calls |-> calls]

IdleBuild ==
    [BuildFrame("none", FALSE, NoTexture, 0, DefaultFont, 0) EXCEPT !.pc = "idle"]

\* The pixel heights fonts are rasterized at.
PixelHeights == {3, 4, 9}

\* The next statement of the load b on the object f: the object and the
\* position after it.
BuildStatement(f, p, b) ==
    CASE b.pc = "enter" -> [font |-> [f EXCEPT !.texture = NoTexture], pc |-> "read"]
      [] b.pc = "read" -> [font |-> f, pc |-> IF b.readable THEN "glyphCount" ELSE "done"]
      [] b.pc = "glyphCount" -> [font |-> [f EXCEPT !.glyphCount = b.count], pc |-> "texture"]
      [] b.pc = "texture" -> [font |-> [f EXCEPT !.texture = b.image], pc |-> "resize"]
      [] b.pc = "resize" ->
            [font |-> [f EXCEPT !.height = b.image.height, !.advance = ZeroTable(b.count)],
             pc |-> "fill"]
      [] b.pc = "fill" ->
            [font |-> [f EXCEPT !.advance = CalculateAdvances(b.image, b.count).advance],
             pc |-> "space"]
      [] b.pc = "space" ->
            [font |-> [f EXCEPT !.height = CalculateAdvances(b.image, b.count).height,
                                !.space = CalculateAdvances(b.image, b.count).space],
             pc |-> "ellipses"]
      [] b.pc = "ellipses" ->
            [font |-> [f EXCEPT !.widthEllipses = WidthRawString(f, p, Ellipsis, 32)],
             pc |-> "done"]

InBuild == build.pc \notin {"idle", "done"}

LoadCall ==
    /\ ~InBuild /\ build.calls < MaxLoads
    /\ \E readable \in BOOLEAN :
          build' = BuildFrame("Load", readable, SheetImage, GLYPHS, font, build.calls + 1)
    /\ UNCHANGED <<font, prefs, res, loop, trunc, fonts, get, translation, lookup, atlas, reg, repl>>

LoadStep ==
    /\ build.op = "Load" /\ InBuild
    /\ font' = BuildStatement(font, prefs, build).font
    /\ build' = [build EXCEPT !.pc = BuildStatement(font, prefs, build).pc]
    /\ UNCHANGED <<prefs, res, loop, trunc, fonts, get, translation, lookup, atlas, reg, repl>>

LoadFromTtfCall ==
    /\ ~InBuild /\ build.calls < MaxLoads
    /\ \E readable \in BOOLEAN, pixelHeight \in PixelHeights :
          build' = BuildFrame("LoadFromTtf", readable, TtfImage(pixelHeight),
                              GLYPHS_EXTENDED, font, build.calls + 1)
    /\ UNCHANGED <<font, prefs, res, loop, trunc, fonts, get, translation, lookup, atlas, reg, repl>>

LoadFromTtfStep ==
    /\ build.op = "LoadFromTtf" /\ InBuild
    /\ font' = BuildStatement(font, prefs, build).font
    /\ build' = [build EXCEPT !.pc = BuildStatement(font, prefs, build).pc]
    /\ UNCHANGED <<prefs, res, loop, trunc, fonts, get, translation, lookup, atlas, reg, repl>>

\* A caller that holds the object measures a string with it; callers use
\* only an object that a load has filled (its advance vector is not empty).
ReloadTexts == {Ellipsis, <<\H6E, \H27>>}
WidthRawStringCall ==
    /\ loop.pc = "idle"
    /\ font.advance.count # 0
    /\ \E str \in ReloadTexts : loop' = LoopFrame("WidthRawString", str, 32, FALSE)
    /\ UNCHANGED <<font, prefs, res, trunc, build, fonts, get, translation, lookup, atlas, reg, repl>>

(***************************************************************************)
(* FontSet: the registry of fonts by (size, language code).  A key is the  *)
(* pair <<size, languageCode>>; the map keeps its keys in the order of     *)
(* std::pair's operator<.                                                  *)
(***************************************************************************)
NoFonts == [key \in {} |-> DefaultFont]

\* The language codes, in the order std::string compares them.
Languages == <<"de", "en", "ru">>
LanguageCodes == {Languages[i] : i \in DOMAIN Languages}
LanguageRank(code) == CHOOSE i \in DOMAIN Languages : Languages[i] = code
Sizes == {2, 3}

\* operator< of pair<int, string>, as <=.
KeyOrder(a, b) ==
    \/ a[1] < b[1]
    \/ a[1] = b[1] /\ LanguageRank(a[2]) <= LanguageRank(b[2])

\* fonts.begin()->first, and the first key the range-for meets with the size.
Begin(m) == CHOOSE k \in DOMAIN m : \A j \in DOMAIN m : KeyOrder(k, j)
FirstOfSize(m, size) ==
    CHOOSE k \in DOMAIN m :
        k[1] = size /\ \A j \in DOMAIN m : j[1] = size => KeyOrder(k, j)

\* fonts[key]: the map after the subscript (a missing key is inserted with
\* a default-constructed Font).
Subscript(m, key) ==
    IF key \in DOMAIN m THEN m
    ELSE [k \in DOMAIN m \cup {key} |-> IF k = key THEN DefaultFont ELSE m[k]]

\* A whole Load or LoadFromTtf call: its statements to the end.
RECURSIVE RunBuild(_, _, _)
RunBuild(f, p, b) ==
    IF b.pc = "done" THEN f
    ELSE RunBuild(BuildStatement(f, p, b).font, p,
                  [b EXCEPT !.pc = BuildStatement(f, p, b).pc])

\* Add loading again into an entry whose earlier load had failed.
AddBodyRetryFailed(m, size, languageCode, readable) ==
    IF <<size, languageCode>> \in DOMAIN m /\ m[<<size, languageCode>>] # DefaultFont THEN m
    ELSE [Subscript(m, <<size, languageCode>>) EXCEPT ![<<size, languageCode>>] =
            RunBuild(@, LoadPrefs, BuildFrame("Load", readable, SheetImage, GLYPHS, @, 0))]

\* FontSet::Add and FontSet::AddTtf: the registry after the call.
AddBody(m, size, languageCode, readable) ==
    IF <<size, languageCode>> \in DOMAIN m THEN m
    ELSE [Subscript(m, <<size, languageCode>>) EXCEPT ![<<size, languageCode>>] =
            RunBuild(@, LoadPrefs, BuildFrame("Load", readable, SheetImage, GLYPHS, @, 0))]

AddTtfBody(m, size, languageCode, readable) ==
    [Subscript(m, <<size, languageCode>>) EXCEPT ![<<size, languageCode>>] =
        RunBuild(@, LoadPrefs,
                 BuildFrame("LoadFromTtf", readable, TtfImage(size), GLYPHS_EXTENDED, @, 0))]

GetBodyUnguarded(m, size, lang) ==
    [fonts |-> Subscript(m, <<size, lang>>), key |-> <<size, lang>>]

\* FontSet::Get: the registry after the call and the key of the entry the
\* returned reference refers to.
GetBody(m, size, lang) ==
    IF <<size, lang>> \in DOMAIN m
        THEN [fonts |-> Subscript(m, <<size, lang>>), key |-> <<size, lang>>]
    ELSE IF <<size, "en">> \in DOMAIN m
        THEN [fonts |-> Subscript(m, <<size, "en">>), key |-> <<size, "en">>]
    ELSE IF \E k \in DOMAIN m : k[1] = size
        THEN [fonts |-> m, key |-> FirstOfSize(m, size)]
    ELSE [fonts |-> m, key |-> Begin(m)]

GetFrame(size, lang, key) == [pc |-> "done", size |-> size, lang |-> lang, key |-> key]
IdleGet == [GetFrame(0, "", <<0, "">>) EXCEPT !.pc = "idle"]

\* The language codes fonts are registered under, and the ones
\* Preferences::Language() returns.
RegisteredCodes == {"de", "en"}

\* The arguments of the last Add or AddTtf call; readable is whether the
\* file at its path can be read.
RegFrame(op, size, languageCode, readable) ==
    [op |-> op, size |-> size, languageCode |-> languageCode, readable |-> readable]
IdleReg == RegFrame("none", 0, "", FALSE)

Add ==
    /\ \E size \in Sizes, languageCode \in RegisteredCodes, readable \in BOOLEAN :
          /\ fonts' = AddBody(fonts, size, languageCode, readable)
          /\ reg' = RegFrame("Add", size, languageCode, readable)
    /\ UNCHANGED <<font, prefs, res, loop, trunc, build, get, translation, lookup, atlas, repl>>

\* The sizes fonts are rasterized at (the size is the pixel height).
TtfSizes == {2}
AddTtf ==
    /\ \E size \in TtfSizes, languageCode \in RegisteredCodes, readable \in BOOLEAN :
          /\ fonts' = AddTtfBody(fonts, size, languageCode, readable)
          /\ reg' = RegFrame("AddTtf", size, languageCode, readable)
    /\ UNCHANGED <<font, prefs, res, loop, trunc, build, get, translation, lookup, atlas, repl>>

\* The game asks for a font only after fonts were added (on an empty map
\* the last return dereferences end()).
Get ==
    /\ DOMAIN fonts # {}
    /\ \E size \in Sizes, lang \in LanguageCodes :
          /\ fonts' = GetBody(fonts, size, lang).fonts
          /\ get' = GetFrame(size, lang, GetBody(fonts, size, lang).key)
    /\ UNCHANGED <<font, prefs, res, loop, trunc, build, translation, lookup, atlas, reg, repl>>

(***************************************************************************)
(* Translation: the string tables and the lookups.  A string is a sequence *)
(* of tokens (the empty string is <<>>), so that "prefix" + identifier is  *)
(* the concatenation of two sequences.  `files` stands for the parsed      *)
(* *.json files of each language directory under mainUI.                   *)
(***************************************************************************)
NoStrings == [key \in {} |-> <<>>]

\* The two-argument helpers: their key prefix, and whether an empty value
\* is answered with the fallback too.
Helpers ==
    {[name |-> "TrStartName", prefix |-> <<"start.name.">>, orEmpty |-> FALSE],
     [name |-> "TrStartDescription", prefix |-> <<"start.desc.">>, orEmpty |-> FALSE],
     [name |-> "TrPhrase", prefix |-> <<"phrase.">>, orEmpty |-> FALSE],
     [name |-> "TrMissionDescription", prefix |-> <<"mission.desc.">>, orEmpty |-> FALSE],
     [name |-> "TrOutfitName", prefix |-> <<"outfit.name.">>, orEmpty |-> FALSE],
     [name |-> "TrOutfitDescription", prefix |-> <<"outfit.desc.">>, orEmpty |-> FALSE],
     [name |-> "TrOutfitPluralName", prefix |-> <<"outfit.plural.">>, orEmpty |-> FALSE],
     [name |-> "TrShipName", prefix |-> <<"ship.name.">>, orEmpty |-> FALSE],
     [name |-> "TrShipPluralName", prefix |-> <<"ship.plural.">>, orEmpty |-> FALSE],
     [name |-> "TrShipDescription", prefix |-> <<"ship.desc.">>, orEmpty |-> TRUE],
     [name |-> "TrPlanetDescription", prefix |-> <<"planet.desc.">>, orEmpty |-> TRUE],
     [name |-> "TrSpaceportDescription", prefix |-> <<"planet.spaceport.">>, orEmpty |-> TRUE]}

\* The identifiers looked up, the fallbacks callers pass, the keys.
Identifiers == {<<"Shuttle">>}
Fallbacks == {<<"fallback">>, <<>>}
TrKeys == {h.prefix \o id : h \in Helpers, id \in Identifiers}

\* What a language directory holds for the keys of an identifier: nothing,
\* an empty string, a text, or the key itself as the text.
Entries == {"absent", "empty", "text", "key"}
StoredValue(entry, code, key) ==
    CASE entry = "empty" -> <<>>
      [] entry = "text" -> <<code>> \o key
      [] entry = "key" -> key
Directory(code, shape) ==
    [key \in {k \in TrKeys : shape[<<k[Len(k)]>>] # "absent"} |->
        StoredValue(shape[<<key[Len(key)]>>], code, key)]
DirectoryCodes == {"en", "ru"}
Files ==
    {[code \in DirectoryCodes |-> Directory(code, shapes[code])] :
        shapes \in [DirectoryCodes -> [Identifiers -> Entries]]}

\* LoadInto(languageCode, target): the table target becomes.
LoadInto(files, languageCode) ==
    IF languageCode \in DOMAIN files THEN files[languageCode] ELSE NoStrings

NoTranslation ==
    [currentLanguage |-> "", currentStrings |-> NoStrings,
     fallbackStrings |-> NoStrings, fallbackLoaded |-> FALSE, files |-> NoStrings]

\* The fallback tables after the lazy load of Tr.
WithFallback(t) ==
    IF ~t.fallbackLoaded /\ t.currentLanguage # "en"
    THEN [t EXCEPT !.fallbackStrings = LoadInto(t.files, "en"), !.fallbackLoaded = TRUE]
    ELSE t

\* The value Tr finds once currentStrings has no entry for key.
FallbackValue(t, key) ==
    IF key \in DOMAIN t.fallbackStrings THEN t.fallbackStrings[key] ELSE key

\* Tr(key): the tables after the call and the string returned.
TrBody(t, key) ==
    IF key \in DOMAIN t.currentStrings
    THEN [translation |-> t, value |-> t.currentStrings[key]]
    ELSE [translation |-> WithFallback(t), value |-> FallbackValue(WithFallback(t), key)]

HelperReturnAnyValue(h, key, value, fallback) ==
    IF value = key THEN fallback ELSE value

\* The return statement of a two-argument helper.
HelperReturn(h, key, value, fallback) ==
    IF value = key \/ (h.orEmpty /\ value = <<>>) THEN fallback ELSE value

LookupFrame(op, key, fallback, result) ==
    [pc |-> "done", op |-> op, key |-> key, fallback |-> fallback, result |-> result]
IdleLookup == [LookupFrame("none", <<>>, <<>>, <<>>) EXCEPT !.pc = "idle"]

SetLanguageCodes == {"de", "en", "ru"}
SetLanguage(code) ==
    /\ translation' = [translation EXCEPT !.currentLanguage = code,
                                          !.currentStrings = LoadInto(translation.files, code)]
    /\ UNCHANGED <<font, prefs, res, loop, trunc, build, fonts, get, lookup, atlas, reg, repl>>

Tr(key) ==
    /\ translation' = TrBody(translation, key).translation
    /\ lookup' = LookupFrame("Tr", key, <<>>, TrBody(translation, key).value)
    /\ UNCHANGED <<font, prefs, res, loop, trunc, build, fonts, get, atlas, reg, repl>>

TrHelper(h, identifier, fallback) ==
    /\ translation' = TrBody(translation, h.prefix \o identifier).translation
    /\ lookup' = LookupFrame(h.name, h.prefix \o identifier, fallback,
                             HelperReturn(h, h.prefix \o identifier,
                                          TrBody(translation, h.prefix \o identifier).value,
                                          fallback))
    /\ UNCHANGED <<font, prefs, res, loop, trunc, build, fonts, get, atlas, reg, repl>>

(***************************************************************************)
(* One call of getResultString(str, charCount), the lambda of a truncation *)
(* policy, as the search loop makes it: the frame keeps charCount in       *)
(* workingChars and the trial string in result.                            *)
(***************************************************************************)
TrialCall ==
    /\ trunc.pc = "call"
    /\ \E charCount \in 0..CountCodePoints(trunc.str) :
          trunc' = [trunc EXCEPT !.pc = "trial", !.workingChars = charCount,
                                 !.result = getResultString(trunc.layout.truncate,
                                                            trunc.str, charCount)]
    /\ UNCHANGED <<font, prefs, res, loop, build, fonts, get, translation, lookup, atlas, reg, repl>>

(***************************************************************************)
(* One iteration of the loops that build the atlas: the placement loop of  *)
(* LoadFromTtf (slot i, with the bitmap box the rasterizer reports for its *)
(* codepoint) and the entry loop of CalculateAdvances (previous, next).    *)
(***************************************************************************)
AtlasFrame(op, image, count) ==
    [pc |-> "loop", op |-> op, image |-> image, count |-> count,
     i |-> 0, box |-> [w |-> 0, h |-> 0], placement |-> "BOTTOM",
     place |-> [skip |-> TRUE, w |-> 0, h |-> 0, dx |-> 0, dy |-> 0],
     previous |-> 0, next |-> 0, entry |-> 0]
IdleAtlas == [AtlasFrame("none", NoTexture, 0) EXCEPT !.pc = "idle"]

\* The body of the loop over the roster, for slot i.  The slots placed are
\* bottom-, middle- and top-anchored glyphs, the first and the last cell of
\* the atlas among them; the bitmap boxes a font reports are empty and
\* inverted ones, every size up to the cell, and ones wider or taller than
\* the cell.
PlaceGlyphStep ==
    /\ atlas.op = "LoadFromTtf" /\ atlas.pc = "loop"
    /\ \E i \in {0, 7, 13, 33, 92, 97, 164, 166},
          box \in [w : -1..(atlas.image.pixelHeight * 2 + 2),
                   h : -1..(atlas.image.pixelHeight * 2 + 2)] :
          atlas' = [atlas EXCEPT
                      !.pc = "placed", !.i = i, !.box = box,
                      !.placement = VerticalPlacement(RosterCodepoint(i)),
                      !.place = PlaceGlyph(i, atlas.image.pixelHeight * 2,
                                           atlas.image.pixelHeight * 2, box,
                                           VerticalPlacement(RosterCodepoint(i)))]
    /\ UNCHANGED <<font, prefs, res, loop, trunc, build, fonts, get, translation, lookup, reg, repl>>

\* Row 0 of the vector keeps the zeros of the fill; the loops store the
\* entries of the rows from 1 on.
AdvanceEntryStep ==
    /\ atlas.op = "CalculateAdvances" /\ atlas.pc = "loop"
    /\ \E previous \in FrequentGlyphs, next \in FrequentGlyphs :
          /\ previous < atlas.count /\ next < atlas.count
          /\ atlas' = [atlas EXCEPT
                         !.pc = "stored", !.previous = previous, !.next = next,
                         !.entry = AdvanceEntry(atlas.image, atlas.count, previous, next)]
    /\ UNCHANGED <<font, prefs, res, loop, trunc, build, fonts, get, translation, lookup, reg, repl>>

(***************************************************************************)
(* Tr(key, replacements): the translation of key with every {{name}}       *)
(* replaced by the value the map gives for name.  replacements is the map  *)
(* as the range-for meets it, a sequence of entries sorted by name.  A     *)
(* string is a sequence of bytes and a position a 0-based offset.          *)
(* entryStart is s as the current entry found it and hits the offsets      *)
(* where find matched while the entry was processed.  "{{" is <<123, 123>>  *)
(* and "}}" is <<125, 125>>.                                               *)
(***************************************************************************)
\* s.compare(i, t.length(), t) == 0, and s.find(t, pos).
MatchAt(s, t, i) == i + Len(t) <= Len(s) /\ SubSeq(s, i + 1, i + Len(t)) = t
Find(s, t, pos) ==
    IF \E i \in pos..Len(s) : MatchAt(s, t, i)
    THEN CHOOSE i \in pos..Len(s) :
            MatchAt(s, t, i) /\ \A j \in pos..(i - 1) : ~MatchAt(s, t, j)
    ELSE npos

\* s.replace(pos, n, value).
Replace(s, pos, n, value) == SubSeq(s, 1, pos) \o value \o SubSeq(s, pos + n + 1, Len(s))

ReplFrame(key, replacements) ==
    [pc |-> "call", key |-> key, replacements |-> replacements, p |-> 0,
     placeholder |-> <<>>, s |-> <<>>, pos |-> 0, entryStart |-> <<>>, hits |-> <<>>]
IdleRepl == [ReplFrame(<<>>, <<>>) EXCEPT !.pc = "idle"]

\* FindBody resuming the search where the placeholder was found.
FindBodyRescan(r) ==
    LET pos == Find(r.s, r.placeholder, r.pos)
        value == r.replacements[r.p].value
    IN IF pos = npos THEN [r EXCEPT !.pc = "entry"]
       ELSE [r EXCEPT !.s = Replace(r.s, pos, Len(r.placeholder), value),
                      !.pos = pos,
                      !.hits = Append(r.hits, pos)]

\* One iteration of for(;;): find, then break or replace and step over the
\* inserted value.
FindBody(r) ==
    LET pos == Find(r.s, r.placeholder, r.pos)
        value == r.replacements[r.p].value
    IN IF pos = npos THEN [r EXCEPT !.pc = "entry"]
       ELSE [r EXCEPT !.s = Replace(r.s, pos, Len(r.placeholder), value),
                      !.pos = pos + Len(value),
                      !.hits = Append(r.hits, pos)]

\* string s = Tr(key);
TrWithReplacements ==
    /\ repl.pc = "call"
    /\ translation' = TrBody(translation, repl.key).translation
    /\ repl' = [repl EXCEPT !.pc = "entry", !.s = TrBody(translation, repl.key).value]
    /\ UNCHANGED <<font, prefs, res, loop, trunc, build, fonts, get, lookup, atlas, reg>>

\* The header of the range-for: the next entry with its placeholder and
\* pos = 0, or the return once the map is exhausted.
NextEntry ==
    /\ repl.pc = "entry"
    /\ repl' = IF repl.p < Len(repl.replacements)
               THEN [repl EXCEPT
                       !.pc = "find", !.p = repl.p + 1,
                       !.placeholder = <<123, 123>> \o repl.replacements[repl.p + 1].name
                                          \o <<125, 125>>,
                       !.pos = 0, !.entryStart = repl.s, !.hits = <<>>]
               ELSE [repl EXCEPT !.pc = "done"]
    /\ UNCHANGED <<font, prefs, res, loop, trunc, build, fonts, get, translation, lookup, atlas, reg>>

FindStep ==
    /\ repl.pc = "find"
    /\ repl' = FindBody(repl)
    /\ UNCHANGED <<font, prefs, res, loop, trunc, build, fonts, get, translation, lookup, atlas, reg>>

(***************************************************************************)
(* Inputs.                                                                 *)
(***************************************************************************)
RECURSIVE SeqsUpTo(_, _)
SeqsUpTo(S, n) ==
    IF n = 0 THEN {<<>>}
    ELSE LET shorter == SeqsUpTo(S, n - 1)
         IN shorter \cup {Append(q, c) : q \in shorter, c \in S}

Fonts == {Load(SheetImage), LoadFromTtf(2)}
LetterSpacings == 0..MaxLetterSpacing
FontScales == {100, 150}
Preferences == [letterSpacing : LetterSpacings, fontScale : FontScales]

TruncAlphabet == {\H54, \H69}
TruncTexts == {EncodeAll(q) : q \in SeqsUpTo(TruncAlphabet, MaxTruncLen)}
Layouts == [width : -1..MaxLayoutWidth, align : {"LEFT", "CENTER", "RIGHT"},
            truncate : {"NONE", "FRONT", "MIDDLE", "BACK"}]

\* The codepoints handed to the resolver: the ASCII range and the Cyrillic
\* blocks with their neighbours, every codepoint the resolver, the
\* substitution table or the placement table names, an unassigned one, the
\* last one and the decoder's sentinel.
Codepoints ==
    (0..127) \cup (\H0400..\H0452)
    \cup {\H00A0, \H00A8, \H00AB, \H00AF, \H00B4, \H00B7, \H00BB}
    \cup (\H2009..\H2036) \cup {\H4E2D, \H10FFFF, invalidCp}

\* The texts measured and drawn: up to MaxTextLen units, each a codepoint in
\* UTF-8 or a stray continuation byte.
TextUnits ==
    {Utf8Encode(c) : c \in {\H6E, \H20, \H27, \H22, \H5F, \H2018, \H0410}} \cup {<<128>>}
RECURSIVE Concat(_)
Concat(units) == IF units = <<>> THEN <<>> ELSE Head(units) \o Concat(Tail(units))
Texts == {Concat(q) : q \in SeqsUpTo(TextUnits, MaxTextLen)}

InitGlyph ==
    /\ font \in Fonts
    /\ build = IdleBuild
    /\ fonts = NoFonts /\ get = IdleGet
    /\ translation = NoTranslation /\ lookup = IdleLookup
    /\ atlas = IdleAtlas
    /\ reg = IdleReg
    /\ repl = IdleRepl
    /\ prefs \in Preferences
    /\ trunc = IdleTrunc
    /\ \/ /\ loop = IdleLoop
          /\ \E c \in Codepoints, isAfterSpace \in BOOLEAN :
                res = ResolveFrame(c, isAfterSpace)
       \/ /\ res = IdleRes
          /\ \E str \in Texts, after \in {32, 86, 127, -1} :
                loop = LoopFrame("WidthRawString", str, after, FALSE)
       \/ /\ res = IdleRes
          /\ \E str \in Texts, showUnderlines \in BOOLEAN :
                loop = LoopFrame("DrawAliased", str, 32, showUnderlines)

NextGlyph ==
    \/ GlyphForCodepointCall
    \/ WidthRawStringStep \/ WidthRawStringReturn
    \/ DrawAliasedStep \/ DrawAliasedReturn

SpecGlyph == InitGlyph /\ [][NextGlyph]_vars

\* The strings measured on their own: letters that kern, the blank and the
\* underline marker.
MeasureAlphabet == {\H41, \H56, \H20, \H5F}
MeasureTexts == {EncodeAll(q) : q \in SeqsUpTo(MeasureAlphabet, MaxMeasureLen)}

InitMeasure ==
    /\ font \in Fonts
    /\ build = IdleBuild
    /\ fonts = NoFonts /\ get = IdleGet
    /\ translation = NoTranslation /\ lookup = IdleLookup
    /\ atlas = IdleAtlas
    /\ reg = IdleReg
    /\ repl = IdleRepl
    /\ prefs \in Preferences
    /\ res = IdleRes
    /\ trunc = IdleTrunc
    /\ \E str \in MeasureTexts, after \in {32, 86} :
          loop = LoopFrame("WidthRawString", str, after, FALSE)

NextMeasure == WidthRawStringStep \/ WidthRawStringReturn

SpecMeasure == InitMeasure /\ [][NextMeasure]_vars

InitLoad ==
    /\ font \in Fonts \cup {DefaultFont}
    /\ prefs = LoadPrefs
    /\ res = IdleRes
    /\ loop = IdleLoop
    /\ trunc = IdleTrunc
    /\ build = IdleBuild
    /\ fonts = NoFonts /\ get = IdleGet
    /\ translation = NoTranslation /\ lookup = IdleLookup
    /\ atlas = IdleAtlas
    /\ reg = IdleReg
    /\ repl = IdleRepl

NextLoad ==
    \/ LoadCall \/ LoadStep
    \/ LoadFromTtfCall \/ LoadFromTtfStep
    \/ WidthRawStringCall \/ WidthRawStringStep \/ WidthRawStringReturn

SpecLoad == InitLoad /\ [][NextLoad]_vars

InitTruncate ==
    /\ font \in Fonts
    /\ build = IdleBuild
    /\ fonts = NoFonts /\ get = IdleGet
    /\ translation = NoTranslation /\ lookup = IdleLookup
    /\ atlas = IdleAtlas
    /\ reg = IdleReg
    /\ repl = IdleRepl
    /\ prefs \in Preferences
    /\ res = IdleRes
    /\ loop = IdleLoop
    /\ \E str \in TruncTexts, layout \in Layouts : trunc = TruncFrame(str, layout)

NextTruncate == TruncateText \/ SearchStep \/ SearchReturn

SpecTruncate == InitTruncate /\ [][NextTruncate]_vars

InitFontSet ==
    /\ font = DefaultFont
    /\ prefs = LoadPrefs
    /\ res = IdleRes
    /\ loop = IdleLoop
    /\ trunc = IdleTrunc
    /\ build = IdleBuild
    /\ fonts = NoFonts /\ get = IdleGet
    /\ translation = NoTranslation /\ lookup = IdleLookup
    /\ atlas = IdleAtlas
    /\ reg = IdleReg
    /\ repl = IdleRepl

NextFontSet == Add \/ AddTtf \/ Get

\* Strings of one-, two- and three-byte codepoints: T, U+0416, U+2014.
TrialAlphabet == {\H54, \H0416, \H2014}
TrialTexts == {EncodeAll(q) : q \in SeqsUpTo(TrialAlphabet, MaxTrialLen)}
TrialLayouts == [width : {0}, align : {"LEFT"}, truncate : {"FRONT", "MIDDLE", "BACK"}]

InitTrial ==
    /\ font = Load(SheetImage)
    /\ prefs = LoadPrefs
    /\ res = IdleRes
    /\ loop = IdleLoop
    /\ \E str \in TrialTexts, layout \in TrialLayouts : trunc = TruncFrame(str, layout)
    /\ build = IdleBuild
    /\ fonts = NoFonts /\ get = IdleGet
    /\ translation = NoTranslation /\ lookup = IdleLookup
    /\ atlas = IdleAtlas
    /\ reg = IdleReg
    /\ repl = IdleRepl

NextTrial == TrialCall

SpecTrial == InitTrial /\ [][NextTrial]_vars

\* The call translates the key "k", which the current language's table
\* holds with a string of up to MaxPieces pieces "{{", "}}" and "n".  The
\* map has no entry, one or two; its names are "n" and "}}{{", in the order
\* std::string compares them, and its values are "", "n", "{{n}}",
\* "{{}}{{}}" and "{{".
InitReplace ==
    /\ font = DefaultFont
    /\ prefs = LoadPrefs
    /\ res = IdleRes
    /\ loop = IdleLoop
    /\ trunc = IdleTrunc
    /\ build = IdleBuild
    /\ fonts = NoFonts /\ get = IdleGet
    /\ lookup = IdleLookup
    /\ atlas = IdleAtlas
    /\ reg = IdleReg
    /\ \E q \in SeqsUpTo({<<123, 123>>, <<125, 125>>, <<110>>}, MaxPieces) :
          translation = [NoTranslation EXCEPT !.currentLanguage = "en",
                                              !.currentStrings = [k \in {<<107>>} |-> Concat(q)]]
    /\ LET names == <<(<<110>>), (<<125, 125, 123, 123>>)>>
           values == {<<>>, <<110>>, <<123, 123, 110, 125, 125>>,
                      <<123, 123, 125, 125, 123, 123, 125, 125>>, <<123, 123>>}
       IN \/ repl = ReplFrame(<<107>>, <<>>)
          \/ \E i \in DOMAIN names, v \in values :
                repl = ReplFrame(<<107>>, <<[name |-> names[i], value |-> v]>>)
          \/ \E v \in values, w \in values :
                repl = ReplFrame(<<107>>, <<[name |-> names[1], value |-> v],
                                            [name |-> names[2], value |-> w]>>)

NextReplace == TrWithReplacements \/ NextEntry \/ FindStep

\* The call is not suspended for ever: a step that can be taken is taken.
SpecReplaceFair == InitReplace /\ [][NextReplace]_vars /\ WF_vars(NextReplace)

\* The atlases built: the glyph sheet and rasterized ones.
InitAtlas ==
    /\ font = DefaultFont
    /\ prefs = LoadPrefs
    /\ res = IdleRes
    /\ loop = IdleLoop
    /\ trunc = IdleTrunc
    /\ build = IdleBuild
    /\ fonts = NoFonts /\ get = IdleGet
    /\ translation = NoTranslation /\ lookup = IdleLookup
    /\ reg = IdleReg
    /\ repl = IdleRepl
    /\ \/ \E image \in {SheetImage, TtfImage(2), TtfImage(3)} :
             atlas = AtlasFrame("CalculateAdvances", image,
                                IF image.kind = "ttf" THEN GLYPHS_EXTENDED ELSE GLYPHS)
       \/ \E pixelHeight \in {2, 3} :
             atlas = AtlasFrame("LoadFromTtf", TtfImage(pixelHeight), GLYPHS_EXTENDED)

NextAtlas == PlaceGlyphStep \/ AdvanceEntryStep

SpecAtlas == InitAtlas /\ [][NextAtlas]_vars

SpecFontSet == InitFontSet /\ [][NextFontSet]_vars

InitTranslation ==
    /\ font = DefaultFont
    /\ prefs = LoadPrefs
    /\ res = IdleRes
    /\ loop = IdleLoop
    /\ trunc = IdleTrunc
    /\ build = IdleBuild
    /\ fonts = NoFonts /\ get = IdleGet
    /\ \E files \in Files : translation = [NoTranslation EXCEPT !.files = files]
    /\ lookup = IdleLookup
    /\ atlas = IdleAtlas
    /\ reg = IdleReg
    /\ repl = IdleRepl

NextTranslation ==
    \/ \E code \in SetLanguageCodes : SetLanguage(code)
    \/ \E key \in TrKeys : Tr(key)
    \/ \E h \in Helpers, identifier \in Identifiers, fallback \in Fallbacks :
          TrHelper(h, identifier, fallback)

SpecTranslation == InitTranslation /\ [][NextTranslation]_vars

(***************************************************************************)
(* Truncation: what a finished TruncateText call is compared with.         *)
(***************************************************************************)
Searching == trunc.layout.truncate \in {"FRONT", "MIDDLE", "BACK"}
Budget == trunc.layout.width
RawWidth == WidthRawString(font, prefs, trunc.str, 32)
TrialString(k) == getResultString(trunc.layout.truncate, trunc.str, k)
TrialWidth(k) == WidthRawString(font, prefs, TrialString(k), 32)
CodePoints == 0..CountCodePoints(trunc.str)
Fitting == {k \in CodePoints : TrialWidth(k) <= Budget}
LargestFitting == CHOOSE k \in Fitting : \A j \in Fitting : j <= k
MonotoneTrials == \A k \in CodePoints \ {0} : TrialWidth(k - 1) <= TrialWidth(k)
Truncated == trunc.pc = "done" /\ Searching /\ Budget >= 0 /\ RawWidth > Budget

\* C1: with trial widths non-decreasing in the retained count, a truncating
\* call returns the trial string of the largest count whose trial width does
\* not exceed the budget, a width equal to the budget counting as fitting.
C1_LargestFit ==
    (Truncated /\ MonotoneTrials /\ Fitting # {})
        => trunc.result = TrialString(LargestFitting)

\* A finished search that kept at least one codepoint, whose trial width is
\* exactly the budget, and for which one codepoint more does not fit.
C1_Witness ==
    /\ Truncated /\ MonotoneTrials
    /\ trunc.workingChars >= 1
    /\ TrialWidth(trunc.workingChars) = Budget
    /\ trunc.workingChars + 1 \in CodePoints
    /\ TrialWidth(trunc.workingChars + 1) > Budget
    /\ trunc.result = TrialString(trunc.workingChars)

\* C2: with a non-negative layout width, when the policy is NONE or the raw
\* width fits, TruncateText returns the text unchanged and reports its raw
\* measured width.
C2_UnchangedWithRawWidth ==
    (trunc.pc = "done" /\ Budget >= 0
        /\ (trunc.layout.truncate = "NONE" \/ RawWidth <= Budget))
        => (trunc.result = trunc.str /\ trunc.width = RawWidth)

\* C3: the width a truncating policy reports is the measured width of the
\* string it returns, also when no codepoint is retained.
C3_ReportedIsMeasured ==
    (trunc.pc = "done" /\ Searching /\ Budget >= 0)
        => trunc.width = WidthRawString(font, prefs, trunc.result, 32)

\* The whole call as a function of its frame.
RECURSIVE RunTruncate(_, _, _)
RunTruncate(f, p, t) ==
    IF t.pc = "call" THEN RunTruncate(f, p, TruncateTextEntry(f, p, t))
    ELSE IF t.pc = "search" /\ t.low <= t.high THEN RunTruncate(f, p, SearchBody(f, p, t))
    ELSE IF t.pc = "search" THEN SearchExit(t)
    ELSE t

\* The width the same call reports with the budget one pixel smaller.
ReportedBelow ==
    RunTruncate(font, prefs,
        TruncFrame(trunc.str, [trunc.layout EXCEPT !.width = @ - 1])).width

\* C4: for a fixed string and truncating policy the reported width
\* is non-decreasing in the budget (stated for neighbouring budgets, from
\* which every pair b1 <= b2 follows).
C4_MonotoneInBudget ==
    (trunc.pc = "done" /\ Searching /\ Budget >= 1) => ReportedBelow <= trunc.width

\* C5: the search loop ends for every string, policy and budget, whatever
\* the trial widths: the loop runs only while low <= high and every
\* iteration makes the bracket high - low strictly smaller; and when no trial
\* string fits the budget it ends with no codepoint retained and returns the
\* ellipsis marker alone.
C5_TerminatesWithEllipsis ==
    /\ [][(trunc.pc = "search" /\ trunc'.iterations # trunc.iterations)
            => /\ trunc.low <= trunc.high
               /\ trunc'.high - trunc'.low < trunc.high - trunc.low
               /\ trunc'.high - trunc'.low >= -1]_vars
    /\ []((Truncated /\ Fitting = {})
            => (trunc.workingChars = 0 /\ trunc.result = Ellipsis))

\* A finished search on non-monotone trial widths where nothing fitted.
C5_Witness ==
    /\ Truncated /\ Fitting = {}
    /\ CountCodePoints(trunc.str) >= 3
    /\ trunc.iterations >= 2
    /\ trunc.workingChars = 0 /\ trunc.result = Ellipsis


(***************************************************************************)
(* Properties of the resolver and of the two loops that call it.          *)
(***************************************************************************)
Resolved == res.pc = "done"

\* C6: with isAfterSpace set, the resolver gives the ASCII apostrophe and
\* U+2018 the same glyph index, and the ASCII double quote and U+201C the
\* same glyph index, whichever roster the font has.
C6_OpeningQuotesAgree ==
    (Resolved /\ res.isAfterSpace) =>
        /\ res.original \in {\H27, \H2018} =>
              /\ res.glyph = GlyphForCodepoint(font.glyphCount, \H27, TRUE)
              /\ res.glyph = GlyphForCodepoint(font.glyphCount, \H2018, TRUE)
        /\ res.original \in {\H22, \H201C} =>
              /\ res.glyph = GlyphForCodepoint(font.glyphCount, \H22, TRUE)
              /\ res.glyph = GlyphForCodepoint(font.glyphCount, \H201C, TRUE)

C6_Witness ==
    /\ Resolved /\ res.isAfterSpace
    /\ res.original = \H2018 /\ res.glyph = 96
    /\ font.glyphCount = GLYPHS

\* C7: on the basic roster the resolver maps the em dash U+2014 to the
\* glyph of the ASCII hyphen, index 13, for either value of isAfterSpace.
C7_EmDashIsHyphen ==
    (Resolved /\ font.glyphCount = GLYPHS /\ res.original = \H2014) => res.glyph = 13

\* The codepoints SubstituteUnsupported has a case for, by what they become.
SubstitutedBySpace == {\H00A0, \H2009, \H2026, \H2033, \H2036}
SubstitutedByMark ==
    {\H2010, \H2011, \H2012, \H2013, \H2019, \H201A, \H201B, \H201D, \H201E, \H201F}

ExtendedRanges ==
    (\H0410..\H042F) \cup {\H0401} \cup (\H0430..\H044F)
    \cup {\H0451, \H2014, \H00AB, \H00BB}

\* A codepoint no rule of the resolver maps.
Unmapped(glyphCount, codepoint, isAfterSpace) ==
    /\ ~(codepoint \in {\H27, \H2018, \H22, \H201C} /\ isAfterSpace)
    /\ ~(codepoint >= 32 /\ codepoint <= 126)
    /\ ~(glyphCount = GLYPHS_EXTENDED /\ codepoint \in ExtendedRanges)
    /\ codepoint \notin SubstitutedBySpace \cup SubstitutedByMark

QuoteGlyphs == {2, 7, 96, 97}

\* C10: while measuring or drawing, an ASCII apostrophe right after a
\* character that resolved to a glyph that is neither blank nor a quote
\* resolves to slot 7, never to slot 96.
C10_ApostropheInsideWord ==
    [][(/\ loop.pc = "loop" /\ loop.pos > 0
        /\ loop.cp # \H5F /\ loop.glyph # 0 /\ loop.glyph \notin QuoteGlyphs
        /\ loop'.pos \notin {npos, loop.pos}
        /\ loop'.cp = \H27)
            => loop'.glyph = 7]_vars

C10_Witness ==
    /\ loop.op = "WidthRawString" /\ loop.pc = "loop"
    /\ loop.pos = 2 /\ loop.str[1] = \H6E /\ loop.str[2] = \H27
    /\ loop.cp = \H27 /\ loop.glyph = 7 /\ ~loop.isAfterSpace


(***************************************************************************)
(* Properties of Font::Width.                                              *)
(***************************************************************************)
Measured == loop.op = "WidthRawString" /\ loop.pc = "done"

\* The entry [previous][next] of the font's advance table.
TableEntry(previous, next) ==
    AdvanceEntry(font.advance.image, font.advance.count, previous, next)

\* C11 as stated: Width("AV") is Advance[A][V] + Advance[V][0], with A = 33
\* and V = 54 the glyph indices of the two letters and column 0 the end of
\* line.
C11_WidthOfAV ==
    (Measured /\ loop.str = <<\H41, \H56>> /\ loop.after = 32)
        => loop.result = TableEntry(33, 54) + TableEntry(54, 0)

\* C11: Width("AV") is Advance[A][V] + Advance[V][0] plus the letter spacing
\* once per glyph, scaled by the font scale and truncated to an integer; it
\* is the plain sum when the letter spacing is 0 and the scale is 100.
C11_WidthOfAVSpacedAndScaled ==
    (Measured /\ loop.str = <<\H41, \H56>> /\ loop.after = 32)
        => /\ loop.result
                = ((TableEntry(33, 54) + TableEntry(54, 0) + 2 * prefs.letterSpacing)
                        * prefs.fontScale) \div 100
           /\ (prefs.letterSpacing = 0 /\ prefs.fontScale = 100)
                => loop.result = TableEntry(33, 54) + TableEntry(54, 0)

C11_Witness ==
    /\ Measured /\ loop.str = <<\H41, \H56>> /\ loop.after = 32
    /\ font.glyphCount = GLYPHS
    /\ prefs.letterSpacing = 1 /\ prefs.fontScale = 150
    /\ TableEntry(33, 54) = 2 /\ TableEntry(54, 0) = 3
    /\ loop.result = 10


\* The bytes of a string other than the underline marker.
NotUnderline(b) == b # \H5F
WithoutUnderlines(str) == SelectSeq(str, NotUnderline)

\* C12: the underline marker consumes no width and leaves the measuring
\* context untouched: the iteration that reads '_' changes neither width,
\* nor previous, nor isAfterSpace, and the width of a string is the width of
\* the string with every '_' removed.
C12_UnderlineHasNoWidth ==
    /\ [](Measured =>
            loop.result
                = WidthRawString(font, prefs, WithoutUnderlines(loop.str), loop.after))
    /\ [][(/\ loop.op = "WidthRawString" /\ loop.pc = "loop"
           /\ loop'.pos \notin {npos, loop.pos}
           /\ loop'.cp = \H5F)
            => (/\ loop'.width = loop.width
                /\ loop'.previous = loop.previous
                /\ loop'.isAfterSpace = loop.isAfterSpace)]_vars

C12_Witness ==
    /\ Measured /\ loop.str = <<\H6E, \H5F, \H27>>
    /\ loop.cp = \H27 /\ loop.glyph = 7 /\ loop.previous = 7
    /\ loop.result = WidthRawString(font, prefs, <<\H6E, \H27>>, loop.after)
    /\ loop.result > 0


(***************************************************************************)
(* Properties of Font::Load and Font::LoadFromTtf.                         *)
(***************************************************************************)
Rasterized == build.pc = "done" /\ build.op = "LoadFromTtf" /\ build.readable
\* The object was rasterized before the call too (its advance table and
\* space come from an atlas), at this pixel height.
RasterizedBefore == build.before.advance.image.kind = "ttf"
HeightBefore == build.before.advance.image.pixelHeight
HeightNow == build.image.pixelHeight

\* C13 as stated: rebuilding the atlas of a rasterized font at a different
\* pixel height always gives a different SpaceWidth.
C13_DifferentHeightDifferentSpace ==
    (Rasterized /\ RasterizedBefore /\ HeightBefore # HeightNow)
        => font.space # build.before.space

\* C13 amended: an atlas built at pixel height h has SpaceWidth
\* (h + 3) / 6 + 1 in integer division; a rebuild at another height changes
\* SpaceWidth exactly when (h + 3) / 6 changes, which it does whenever the
\* heights are 6 or more apart, and a larger height never gives a smaller
\* SpaceWidth.
C13_SpaceWidthByHeight ==
    Rasterized =>
        /\ font.space = (HeightNow + 3) \div 6 + 1
        /\ RasterizedBefore =>
              /\ (font.space = build.before.space)
                    <=> ((HeightNow + 3) \div 6 = (HeightBefore + 3) \div 6)
              /\ HeightNow >= HeightBefore + 6 => font.space > build.before.space
              /\ HeightNow >= HeightBefore => font.space >= build.before.space

C13_Witness ==
    /\ Rasterized /\ RasterizedBefore
    /\ HeightBefore = 3 /\ HeightNow = 9
    /\ build.before.space = 2 /\ font.space = 3


\* C14: a Load or LoadFromTtf call whose source cannot be read or parsed
\* leaves every field of the Font object as it was when the call was
\* entered, also on an object that already held a loaded font.
C14_FailedLoadIsNoOp ==
    (build.pc = "done" /\ ~build.readable) => font = build.before


\* What a completed build publishes: the fonts Load and LoadFromTtf leave
\* when they run to their end on a readable source.
CompletedBuilds ==
    {Load(SheetImage)} \cup {LoadFromTtf(h) : h \in PixelHeights \cup {2}}
FromOneBuild(f) ==
    \E c \in CompletedBuilds :
        /\ f.glyphCount = c.glyphCount /\ f.advance = c.advance
        /\ f.space = c.space /\ f.texture = c.texture
ReaderStep == loop.op = "WidthRawString" /\ loop.pc = "loop" /\ loop' # loop

\* C15: a reader that measures with the Font of a registry entry while
\* that entry is reloaded in steps never observes a mixed state: at each of
\* its steps glyphCount, the advance table, SpaceWidth and the texture all
\* belong to one completed build.
C15_ReaderSeesOneBuild == [][ReaderStep => FromOneBuild(font)]_vars


(***************************************************************************)
(* Properties of FontSet.                                                  *)
(***************************************************************************)
\* The entry the claim lets Get(size) return under the language lang.
Selected(m, size, lang, key) ==
    /\ key \in DOMAIN m
    /\ IF <<size, lang>> \in DOMAIN m THEN key = <<size, lang>>
       ELSE IF <<size, "en">> \in DOMAIN m THEN key = <<size, "en">>
       ELSE IF \E k \in DOMAIN m : k[1] = size THEN key[1] = size
       ELSE \A j \in DOMAIN m : KeyOrder(key, j)

\* C16: on a non-empty registry Get(size) returns the entry of (size,
\* current language) if registered, else that of (size, "en"), else an
\* entry of that size, else the first entry of the registry; and the call
\* leaves the registry as it was (no entry added, removed or reloaded).
C16_GetSelectsAndKeepsRegistry ==
    [][get' # get => (fonts' = fonts /\ Selected(fonts, get'.size, get'.lang, get'.key))]_vars

C16_Witness ==
    /\ get.pc = "done" /\ get.size = 2 /\ get.lang = "ru"
    /\ DOMAIN fonts = {<<3, "de">>, <<3, "en">>}
    /\ get.key = <<3, "de">>


(***************************************************************************)
(* Properties of Translation.                                              *)
(***************************************************************************)
\* What the language directories hold for the current language and for
\* English, and the string they give for a key.
CurrentDirectory == LoadInto(translation.files, translation.currentLanguage)
EnglishDirectory == LoadInto(translation.files, "en")
StoredTranslation(key) ==
    IF key \in DOMAIN CurrentDirectory THEN CurrentDirectory[key]
    ELSE IF key \in DOMAIN EnglishDirectory THEN EnglishDirectory[key]
    ELSE key
NoneStored(key) == key \notin DOMAIN CurrentDirectory /\ key \notin DOMAIN EnglishDirectory
TrAsStated ==
    \A key \in TrKeys : Tr(key) => lookup'.result = StoredTranslation(key)

\* C17 as stated: whatever SetLanguage and lookup calls came before, Tr
\* returns the current language's string, else the English one, else the
\* key; and a two-argument helper returns the caller's fallback exactly when
\* neither table has a translation for its prefixed key, and the stored
\* translation otherwise.
C17_FallbackOnlyWhenNoneStored ==
    [][/\ TrAsStated
       /\ \A h \in Helpers, identifier \in Identifiers, fallback \in Fallbacks :
             TrHelper(h, identifier, fallback) =>
                lookup'.result = IF NoneStored(h.prefix \o identifier) THEN fallback
                                 ELSE StoredTranslation(h.prefix \o identifier)]_vars

\* C17 amended: Tr as stated; a two-argument helper returns the caller's
\* fallback when neither table has a translation for its prefixed key,
\* when the stored translation is the prefixed key itself and, for
\* TrShipDescription, TrPlanetDescription and TrSpaceportDescription, when
\* the stored translation is empty; otherwise the stored translation.
C17_FallbackWhenNoneKeyOrEmpty ==
    [][/\ TrAsStated
       /\ \A h \in Helpers, identifier \in Identifiers, fallback \in Fallbacks :
             TrHelper(h, identifier, fallback) =>
                lookup'.result =
                    IF \/ NoneStored(h.prefix \o identifier)
                       \/ StoredTranslation(h.prefix \o identifier) = h.prefix \o identifier
                       \/ /\ h.name \in {"TrShipDescription", "TrPlanetDescription",
                                          "TrSpaceportDescription"}
                          /\ StoredTranslation(h.prefix \o identifier) = <<>>
                    THEN fallback
                    ELSE StoredTranslation(h.prefix \o identifier)]_vars

C17_Witness ==
    /\ lookup.pc = "done" /\ lookup.op = "TrShipDescription"
    /\ translation.currentLanguage = "ru" /\ translation.fallbackLoaded
    /\ lookup.key \in DOMAIN translation.currentStrings
    /\ translation.currentStrings[lookup.key] = <<>>
    /\ lookup.fallback = <<"fallback">> /\ lookup.result = <<"fallback">>


(***************************************************************************)
(* Properties of the trial strings.                                        *)
(***************************************************************************)
Tried == trunc.pc = "trial"
\* The codepoints of the string the trial string is cut from, and the
\* encoding of its codepoints from..to.
Original == DecodeAll(trunc.str, 0)
Retained(from, to) == EncodeAll(SubSeq(Original, from, to))

\* C18: for a string of N codepoints and k in 0..N the trial string is the
\* first k codepoints and "..." (BACK), "..." and the last k codepoints
\* (FRONT), or the first ceil(k/2) codepoints, "..." and the last
\* floor(k/2) codepoints (MIDDLE): whole codepoints of the original, k of
\* them, in their order, the two runs of MIDDLE not overlapping.
C18_TrialStringRetainsK ==
    Tried =>
        LET N == Len(Original)
            k == trunc.workingChars
        IN /\ N = CountCodePoints(trunc.str) /\ k \in 0..N
           /\ trunc.layout.truncate = "BACK" =>
                 trunc.result = Retained(1, k) \o Ellipsis
           /\ trunc.layout.truncate = "FRONT" =>
                 trunc.result = Ellipsis \o Retained(N - k + 1, N)
           /\ trunc.layout.truncate = "MIDDLE" =>
                 /\ trunc.result = Retained(1, (k + 1) \div 2) \o Ellipsis
                                       \o Retained(N - (k \div 2) + 1, N)
                 /\ (k + 1) \div 2 < N - (k \div 2) + 1
           /\ Len(DecodeAll(trunc.result, 0)) = k + 3

C18_Witness ==
    /\ Tried /\ trunc.layout.truncate = "MIDDLE"
    /\ trunc.str = EncodeAll(<<\H54, \H0416, \H2014, \H0416>>)
    /\ trunc.workingChars = 3
    /\ trunc.result = EncodeAll(<<\H54, \H0416>>) \o Ellipsis \o EncodeAll(<<\H0416>>)


(***************************************************************************)
(* Properties of the isAfterSpace flag of the two loops.                   *)
(***************************************************************************)
\* An iteration that decoded a character and handed it to the resolver.
ResolvedInLoop ==
    /\ loop.pc = "loop" /\ loop'.pc = "loop"
    /\ loop'.pos \notin {npos, loop.pos}
    /\ loop'.cp # \H5F
QuoteCharacters == {\H27, \H22, \H2018, \H201C}

\* C19: in the measure and draw loops isAfterSpace is true when the loop
\* is entered; an iteration leaves it unchanged if its character is a
\* quote (', ", U+2018, U+201C), and otherwise sets it to true if the
\* character resolved to glyph 0 and to false if it resolved to a
\* non-blank glyph.
C19_QuotesKeepIsAfterSpace ==
    /\ [](loop.pc = "loop" /\ loop.pos = 0 => loop.isAfterSpace)
    /\ [][ResolvedInLoop =>
            IF loop'.cp \in QuoteCharacters
            THEN loop'.isAfterSpace = loop.isAfterSpace
            ELSE loop'.isAfterSpace = (loop'.glyph = 0)]_vars


(***************************************************************************)
(* The resolver against the roster of the atlas.                           *)
(***************************************************************************)
Slots == (0..(GLYPHS_EXTENDED - 1)) \ {95}
OpenQuoteSlots == {96, 97}
\* The call resolves the codepoint of slot i in the context the slot is for.
ResolvesSlot(i) ==
    /\ Resolved /\ font.glyphCount = GLYPHS_EXTENDED
    /\ res.original = RosterCodepoint(i)
    /\ res.isAfterSpace = (i \in OpenQuoteSlots)

Stored == atlas.pc = "stored"
CellWidth == atlas.image.width \div atlas.count
Rows == 0..(atlas.image.height - 1)
MaxOf(S) == CHOOSE m \in S : \A x \in S : x <= m
MinOf(S) == CHOOSE m \in S : \A x \in S : m <= x
\* The offsets of the inked pixels (alpha byte >= 0xC0) of row r of a cell.
Inked(glyph, r) ==
    {x \in 0..(CellWidth - 1) :
        Alpha(atlas.image, r * atlas.image.width + glyph * CellWidth + x) >= 192}
RightEdge(glyph, r) == IF Inked(glyph, r) = {} THEN 1 ELSE MaxOf(Inked(glyph, r)) + 1
LeftEdge(glyph, r) == IF Inked(glyph, r) = {} THEN CellWidth - 1 ELSE MinOf(Inked(glyph, r))
TightWidth(glyph) == MaxOf({RightEdge(glyph, r) : r \in Rows})
RowDistance(previous, next) ==
    IF next = 0 THEN MaxOf({0} \cup {RightEdge(previous, r) : r \in Rows})
    ELSE MaxOf({0} \cup {RightEdge(previous, r) - LeftEdge(next, r) : r \in Rows})

\* C21: for p >= 1 the entry stored for (p, n) is max(D, W - 4) / 2, with W
\* the largest right edge of p's rows (1 for a row without ink) and D the
\* largest row distance, right edge of p less left edge of n (cell width
\* - 1 for a row without ink), or W itself when n = 0, never below 0; so
\* the entry for (p, 0) is W / 2.
C21_EntryFromInk ==
    (Stored /\ atlas.previous >= 1) =>
        /\ atlas.entry =
              Max(RowDistance(atlas.previous, atlas.next), TightWidth(atlas.previous) - 4)
                  \div 2
        /\ atlas.next = 0 => atlas.entry = TightWidth(atlas.previous) \div 2

C21_Witness ==
    /\ Stored /\ atlas.image = SheetImage
    /\ atlas.previous = 33 /\ atlas.next = 54
    /\ TightWidth(33) = 6 /\ RowDistance(33, 54) = 4 /\ atlas.entry = 2


(***************************************************************************)
(* Properties of the trial widths and of the string TruncateText returns.  *)
(***************************************************************************)
\* C22: for a string and a policy FRONT, MIDDLE or BACK the measured width
\* of the trial string never decreases as the number k of retained
\* codepoints grows, whatever the advance table and the letter spacing.
C22_TrialWidthMonotone ==
    Searching =>
        \A k1 \in CodePoints, k2 \in CodePoints :
            k1 <= k2 => TrialWidth(k1) <= TrialWidth(k2)


(***************************************************************************)
(* Properties of the placement of a glyph in its cell.                     *)
(***************************************************************************)
Placed == atlas.pc = "placed" /\ ~atlas.place.skip
CellW == atlas.image.pixelHeight * 2
CellH == atlas.image.pixelHeight * 2
\* The pixels pixels[(dy + y) * atlasW + (dx + x)] the copy loops write.
WrittenColumns == {atlas.place.dx + x : x \in 0..(atlas.place.w - 1)}
WrittenRows == {atlas.place.dy + y : y \in 0..(atlas.place.h - 1)}

\* C23: whatever the bounding box, the glyph copied for slot i is clipped
\* to the cell and written inside cell i only: dy is in [0, cellHeight - h],
\* the written columns are in [i * cellWidth, (i + 1) * cellWidth), the
\* written rows in [0, cellHeight), and every written index is inside the
\* atlas buffer.
C23_WritesStayInCell ==
    Placed =>
        /\ atlas.place.w <= CellW /\ atlas.place.h <= CellH
        /\ atlas.place.dy >= 0 /\ atlas.place.dy <= CellH - atlas.place.h
        /\ \A c \in WrittenColumns : c >= atlas.i * CellW /\ c < (atlas.i + 1) * CellW
        /\ \A r \in WrittenRows : r >= 0 /\ r < CellH
        /\ \A c \in WrittenColumns, r \in WrittenRows :
              r * atlas.image.width + c \in 0..(atlas.image.width * atlas.image.height - 1)

C23_Witness ==
    /\ Placed /\ atlas.i = 166 /\ atlas.image.pixelHeight = 3
    /\ atlas.box = [w |-> 8, h |-> 7]
    /\ atlas.place.w = 6 /\ atlas.place.h = 6
    /\ atlas.place.dx = 166 * 6 /\ atlas.place.dy = 0


\* C27: after the lift by cellHeight / 2 and the clamp, a MIDDLE or a TOP
\* glyph of any height 1..cellHeight has final offset 0, and a BOTTOM glyph
\* has final offset max(0, cellHeight / 2 - h); a MIDDLE glyph is centred
\* on the line at half the cell height only when it is as high as the cell.
C27_MiddleAndTopAtZero ==
    Placed =>
        /\ atlas.place.h \in 1..CellH
        /\ atlas.placement \in {"MIDDLE", "TOP"} => atlas.place.dy = 0
        /\ atlas.placement = "BOTTOM" =>
              atlas.place.dy = Max(0, (CellH \div 2) - atlas.place.h)
        /\ atlas.placement = "MIDDLE" =>
              ((2 * atlas.place.dy + atlas.place.h = CellH) <=> (atlas.place.h = CellH))

C27_Witness ==
    /\ Placed /\ atlas.i = 13 /\ atlas.placement = "MIDDLE"
    /\ atlas.image.pixelHeight = 3 /\ atlas.place.h = 2
    /\ atlas.place.dy = 0


\* C25: every entry CalculateAdvances stores is a non-negative integer,
\* the entries of row 0 are 0, and for p >= 1 the entry for (p, n) lies
\* between max(0, advance[p][0] - 2) and advance[p][0]: kerning never
\* widens the end-of-line advance and tightens it by at most 2.
C25_EntryWithinTwoOfEndOfLine ==
    Stored =>
        /\ atlas.entry \in Nat
        /\ atlas.previous = 0 => atlas.entry = 0
        /\ atlas.previous >= 1 =>
              /\ atlas.entry <= AdvanceEntry(atlas.image, atlas.count, atlas.previous, 0)
              /\ atlas.entry >=
                    Max(0, AdvanceEntry(atlas.image, atlas.count, atlas.previous, 0) - 2)

C25_Witness ==
    /\ Stored /\ atlas.image = SheetImage
    /\ atlas.previous = 52 /\ atlas.next = 73
    /\ atlas.entry = 1
    /\ AdvanceEntry(atlas.image, atlas.count, 52, 0) = 3


(***************************************************************************)
(* The indices into the advance table.                                     *)
(***************************************************************************)
GlyphIndices == 0..(font.glyphCount - 1)
InTable(index) == index \in 0..(font.glyphCount * font.glyphCount - 1)
\* The index of the lookup after the loop, for the `after` character.
TrailingIndex ==
    loop.previous * font.glyphCount
        + Max(0, Min(font.glyphCount - 1,
                     IF loop.after >= 32 /\ loop.after <= 126 THEN loop.after - 32 ELSE 0))

\* C24: on a loaded font the resolver returns an index in 0..glyphCount - 1
\* for every codepoint and both contexts, and every index the measure and
\* draw loops read the advance table at (previous * glyphCount + glyph,
\* the underline's glyph * glyphCount, and the lookup for the `after`
\* character) lies inside the glyphCount * glyphCount table.
C24_IndicesInsideTable ==
    /\ [](Resolved => res.glyph \in GlyphIndices)
    /\ [](loop.pc # "idle" =>
            /\ loop.glyph \in GlyphIndices /\ loop.previous \in GlyphIndices
            /\ InTable(loop.glyph * font.glyphCount)
            /\ loop.op = "WidthRawString" => InTable(TrailingIndex))
    /\ [][ResolvedInLoop => InTable(loop.previous * font.glyphCount + loop'.glyph)]_vars

C24_Witness ==
    /\ loop.op = "WidthRawString" /\ loop.pc = "done"
    /\ font.glyphCount = GLYPHS /\ loop.str = <<\H22>> /\ loop.after = -1
    /\ loop.previous = 97 /\ TrailingIndex = 97 * 98


(***************************************************************************)
(* The width of what TruncateEndsOrMiddle returns.                         *)
(***************************************************************************)
ReturnedWidth == WidthRawString(font, prefs, trunc.result, 32)

\* C26: when the search of TruncateEndsOrMiddle has run, with monotone
\* trial widths or without, the measured width of the returned string is
\* at most the budget if the string keeps at least one codepoint of the
\* original or if the ellipsis alone fits; it exceeds the budget only when
\* the ellipsis alone does not fit.
C26_ReturnedStringFits ==
    Truncated =>
        /\ (trunc.workingChars >= 1 \/ TrialWidth(0) <= Budget) => ReturnedWidth <= Budget
        /\ ReturnedWidth > Budget => (trunc.workingChars = 0 /\ TrialWidth(0) > Budget)

\* A search on non-monotone trial widths that kept two codepoints.
C26_Witness ==
    /\ Truncated /\ ~MonotoneTrials
    /\ trunc.workingChars = 2 /\ trunc.result = TrialString(2)
    /\ ReturnedWidth <= Budget
    /\ TrialWidth(1) > Budget


(***************************************************************************)
(* Registration in FontSet.                                                *)
(***************************************************************************)
RegKey(r) == <<r.size, r.languageCode>>

\* C28: FontSet::Add loads at most once per key: an Add on a key the
\* registry already holds leaves the registry and the Font of the key
\* unchanged, also when the entry came from an Add or AddTtf whose load
\* failed; the only call that changes the Font of an existing key is AddTtf
\* on that key, and no call removes a key.
C28_AddLoadsOncePerKey ==
    /\ [][(reg'.op = "Add" /\ RegKey(reg') \in DOMAIN fonts) => fonts' = fonts]_vars
    /\ [][\A key \in DOMAIN fonts :
            /\ key \in DOMAIN fonts'
            /\ fonts'[key] # fonts[key] => (reg'.op = "AddTtf" /\ RegKey(reg') = key)]_vars

\* An Add of a readable sheet on a key whose entry is still the Font a
\* failed load left, beside an entry that was loaded.
C28_Witness ==
    /\ reg = RegFrame("Add", 3, "en", TRUE)
    /\ DOMAIN fonts = {<<3, "en">>, <<3, "de">>}
    /\ fonts[<<3, "en">>] = DefaultFont
    /\ fonts[<<3, "de">>].glyphCount = GLYPHS


(***************************************************************************)
(* The depth of the resolver's recursion.                                  *)
(***************************************************************************)
SubstituteRange == {\H20, \H2D, \H27, \H22}

\* C29: the resolver calls itself at most once for any codepoint: the
\* substitution table sends a codepoint only to U+0020, U+002D, U+0027 or
\* U+0022, each of which the ASCII branch resolves without a further
\* substitution.
C29_SubstitutionDepthAtMostOne ==
    res.pc # "idle" =>
        /\ res.depth <= 1
        /\ res.depth = 0 => res.codepoint = res.original
        /\ res.depth = 1 =>
              /\ res.codepoint = SubstituteUnsupported(res.original)
              /\ res.codepoint \in SubstituteRange
              /\ GlyphForCodepointBody(font.glyphCount, res.codepoint, res.isAfterSpace).ret

\* The right single quote resolved as the apostrophe after one substitution.
C29_Witness ==
    /\ Resolved /\ res.depth = 1
    /\ res.original = \H2019 /\ res.codepoint = \H27
    /\ ~res.isAfterSpace /\ res.glyph = 7


(***************************************************************************)
(* Properties of Tr(key, replacements).                                    *)
(***************************************************************************)
\* An entry of the map whose loop has ended, with its value.
EntryFinished == repl.pc \in {"entry", "done"} /\ repl.p >= 1
EntryValue == repl.replacements[repl.p].value

\* The offsets of the placeholder in s as the entry found it, and the
\* offset there of what the j-th replacement replaced.
Occurrences ==
    {i \in 0..Len(repl.entryStart) : MatchAt(repl.entryStart, repl.placeholder, i)}
OriginalOffset(j) == repl.hits[j] - (j - 1) * (Len(EntryValue) - Len(repl.placeholder))
Replaced == {OriginalOffset(j) : j \in DOMAIN repl.hits}
Overlapping ==
    \E i \in Occurrences, j \in Occurrences : i < j /\ j < i + Len(repl.placeholder)

\* str from offset from on, with value in place of the n bytes at each of
\* the offsets starts.
RECURSIVE Spliced(_, _, _, _, _)
Spliced(str, starts, from, n, value) ==
    IF starts = <<>> THEN SubSeq(str, from + 1, Len(str))
    ELSE SubSeq(str, from + 1, Head(starts)) \o value
            \o Spliced(str, Tail(starts), Head(starts) + n, n, value)

\* C30 as stated: every occurrence of the placeholder present when the
\* entry is processed has been replaced, each exactly once, when the
\* entry's loop ends.
C30_EveryOccurrenceReplaced ==
    EntryFinished =>
        /\ Replaced = Occurrences
        /\ Len(repl.hits) = Cardinality(Occurrences)

\* C30 amended: the call terminates for every map, also when a value holds
\* its own placeholder or is empty (each replacement shrinks the text left
\* to scan by the placeholder's length, and the search resumes after the
\* inserted value, which is never scanned for the same placeholder); when
\* an entry's loop ends, what was replaced are occurrences present when the
\* entry was reached, taken left to right without overlap, each once; an
\* occurrence was left out only if it overlaps a replaced one that starts
\* before it, so that all are replaced when no two occurrences overlap.
C30_TerminatesReplacingLeftToRight ==
    /\ <>(repl.pc = "done")
    /\ [][(repl.pc = "find" /\ repl'.hits # repl.hits) =>
            /\ repl'.pos = repl'.hits[Len(repl'.hits)] + Len(EntryValue)
            /\ Len(repl'.s) - repl'.pos <= Len(repl.s) - repl.pos - Len(repl.placeholder)
            /\ Len(repl'.s) - repl'.pos >= 0]_vars
    /\ [](EntryFinished =>
            /\ \A j \in DOMAIN repl.hits : OriginalOffset(j) \in Occurrences
            /\ \A j \in DOMAIN repl.hits :
                  j > 1 => /\ OriginalOffset(j) >= OriginalOffset(j - 1) + Len(repl.placeholder)
                           /\ repl.hits[j] >= repl.hits[j - 1] + Len(EntryValue)
            /\ \A i \in Occurrences \ Replaced :
                  \E j \in DOMAIN repl.hits :
                      OriginalOffset(j) < i /\ i < OriginalOffset(j) + Len(repl.placeholder)
            /\ ~Overlapping => Replaced = Occurrences
            /\ repl.s = Spliced(repl.entryStart, [j \in DOMAIN repl.hits |-> OriginalOffset(j)],
                                0, Len(repl.placeholder), EntryValue))

\* "{{n}}{{n}}" with n replaced by "{{n}}": two replacements, and the
\* text returned holds the placeholder twice.
C30_Witness ==
    /\ repl.pc = "done" /\ repl.p = 1
    /\ repl.replacements = <<[name |-> <<110>>, value |-> <<123, 123, 110, 125, 125>>]>>
    /\ repl.entryStart = <<123, 123, 110, 125, 125, 123, 123, 110, 125, 125>>
    /\ repl.hits = <<0, 5>>
    /\ repl.s = repl.entryStart

=============================================================================
